---- MODULE Spec2Model ----
(***************************************************************************)
(* Model of the frog-puzzle tutoring backend (DavidK1412/MA_GAME).         *)
(*                                                                         *)
(* Part 1: the state-graph solver of app/utils/graph_utils.py.             *)
(* A puzzle state is a Python list of integers; it is modelled as a TLA+   *)
(* sequence.  Python positions are 0-based, sequence positions 1-based:    *)
(* Python index p is position p + 1 here, offsets and directions are       *)
(* unchanged by the shift.                                                 *)
(***************************************************************************)
EXTENDS Integers, Sequences, FiniteSets, TLC

VARIABLES
    total_left,     \* team size passed as total_left and total_right
    start_state,    \* the state argument (initial_state / start_state / state)
    goal_state,     \* the goal argument
    op,             \* the function called last ("init" before any call)
    result,         \* what that call returned or raised
    beliefs,        \* DecisionController.beliefs: the roster, in list order
    decision,       \* the last call on the DecisionController and its outcome
    values,         \* DecisionCenter: self.values of each belief object of the roster
    requests,       \* DecisionCenter: the move request of each game session
    attempts,       \* table game_attempts of the game, with its miss counters
    movements,      \* table movements
    cache,          \* _METRICS_CACHE[game_id]
    now,            \* time(), in seconds
    last            \* the last request of the game and its response

solverVars == <<total_left, start_state, goal_state, op, result>>

decisionVars == <<beliefs, decision>>

legacyVars == <<values, requests>>

gameVars == <<attempts, movements, cache, now, last>>

vars == <<solverVars, decisionVars, legacyVars, gameVars>>

\* what each part of the model leaves alone
notSolver == <<decisionVars, legacyVars, gameVars>>

notDecision == <<solverVars, legacyVars, gameVars>>

notLegacy == <<solverVars, decisionVars, gameVars>>

notGame == <<solverVars, decisionVars, legacyVars>>

\* the value of each part while another part of the program is exercised
NoDecision == [op |-> "init", kind |-> "none", evaluated |-> <<>>, winner |-> ""]

DecisionIdle == beliefs = <<>> /\ decision = NoDecision

SolverIdle ==
    /\ total_left = 0
    /\ start_state = <<>>
    /\ goal_state = <<>>
    /\ op = "idle"
    /\ result = <<>>

LegacyIdle == values = <<>> /\ requests = <<>>

GameIdle ==
    /\ attempts = <<>>
    /\ movements = <<>>
    /\ cache = <<>>
    /\ now = 0
    /\ last = <<>>

-----------------------------------------------------------------------------
(* Bounds of the model and constants of the program *)

\* largest team size the inputs are drawn for (the game uses 3, 4 and 5)
MaxTeam == 3

\* max_iterations of build_graph
MaxIterations == 1000

\* default of the max_depth parameter of shortest_path_length
DefaultMaxDepth == 100

-----------------------------------------------------------------------------
(* Return values.  Every result is a record of the same shape so that any  *)
(* two results can be compared: kind tells which Python value it is.       *)

RetNone == [kind |-> "None", int |-> 0, state |-> <<>>, list |-> <<>>]

RetRaise == [kind |-> "GraphUtilsError", int |-> 0, state |-> <<>>, list |-> <<>>]

RetInt(k) == [kind |-> "int", int |-> k, state |-> <<>>, list |-> <<>>]

RetState(s) == [kind |-> "state", int |-> 0, state |-> s, list |-> <<>>]

RetList(l) == [kind |-> "list", int |-> 0, state |-> <<>>, list |-> l]

RetBool(b) == [kind |-> "bool", int |-> (IF b THEN 1 ELSE 0), state |-> <<>>, list |-> <<>>]

-----------------------------------------------------------------------------
(* Helpers for Python list operations *)

Abs(x) == IF x < 0 THEN 0 - x ELSE x

\* a Python list built by a comprehension: the sequence [k \in 1..n |-> e] with
\* its elements computed once
ListOf(f) == f \o <<>>

\* state.count(v)
Count(state, v) == Cardinality({p \in 1..Len(state) : state[p] = v})

\* v in state
Contains(state, v) == \E p \in 1..Len(state) : state[p] = v

\* state.index(v), the first position holding v (the caller checks Contains)
IndexOf(state, v) == CHOOSE p \in 1..Len(state) :
                        /\ state[p] = v
                        /\ \A q \in 1..(p - 1) : state[q] # v

\* SwapPositions with the second assignment lost: position b keeps its value
SwapPositions_one_way(state, a, b) ==
    ListOf([p \in 1..Len(state) |-> IF p = a THEN state[b] ELSE state[p]])

\* new_state[a], new_state[b] = new_state[b], new_state[a] on a copy
SwapPositions(state, a, b) ==
    ListOf([p \in 1..Len(state) |-> IF p = a THEN state[b]
                                    ELSE IF p = b THEN state[a]
                                    ELSE state[p]])

\* isinstance(x, int)
IsInt(x) == x \in Int

-----------------------------------------------------------------------------
(* validate_game_state: RetRaise when it raises GraphUtilsError, RetNone   *)
(* when it returns.                                                        *)

\* validate_game_state without the test state.count(0) != 1
validate_game_state_no_count(state, expected_length) ==
    IF Len(state) # expected_length THEN RetRaise
    ELSE IF ~Contains(state, 0) THEN RetRaise
    ELSE IF ~(\A p \in 1..Len(state) : IsInt(state[p])) THEN RetRaise
    ELSE RetNone

validate_game_state(state, expected_length) ==
    IF Len(state) # expected_length THEN RetRaise
    ELSE IF ~Contains(state, 0) THEN RetRaise
    ELSE IF Count(state, 0) # 1 THEN RetRaise
    ELSE IF ~(\A p \in 1..Len(state) : IsInt(state[p])) THEN RetRaise
    ELSE RetNone

is_left_frog(frog, tl) == 1 <= frog /\ frog <= tl

is_right_frog(frog, tl, tr) == tl < frog /\ frog <= tl + tr

\* is_valid_move without the test of the jumped-over position
is_valid_move_any_jump(state, i, j, tl, tr) ==
    IF ~(i \in 1..Len(state) /\ j \in 1..Len(state)) THEN FALSE
    ELSE LET frog == state[i]
             direction == j - i
         IN IF frog = 0 THEN FALSE
            ELSE IF Abs(direction) \notin {1, 2} THEN FALSE
            ELSE IF state[j] # 0 THEN FALSE
            ELSE IF direction > 0 /\ is_left_frog(frog, tl) THEN TRUE
            ELSE IF direction < 0 /\ is_right_frog(frog, tl, tr) THEN TRUE
            ELSE FALSE

is_valid_move(state, i, j, tl, tr) ==
    IF ~(i \in 1..Len(state) /\ j \in 1..Len(state)) THEN FALSE
    ELSE LET frog == state[i]
             direction == j - i
         IN IF frog = 0 THEN FALSE
            ELSE IF Abs(direction) \notin {1, 2} THEN FALSE
            ELSE IF state[j] # 0 THEN FALSE
            ELSE IF direction > 0 /\ is_left_frog(frog, tl)
              THEN IF Abs(direction) = 2
                     THEN LET middle_pos == i + 1
                          IN /\ middle_pos <= Len(state)
                             /\ ~is_left_frog(state[middle_pos], tl)
                             /\ state[middle_pos] # 0
                     ELSE TRUE
            ELSE IF direction < 0 /\ is_right_frog(frog, tl, tr)
              THEN IF Abs(direction) = 2
                     THEN LET middle_pos == i - 1
                          IN /\ middle_pos >= 1
                             /\ ~is_right_frog(state[middle_pos], tl, tr)
                             /\ state[middle_pos] # 0
                     ELSE TRUE
            ELSE FALSE

\* the offsets tried by generate_neighbors, in its order
Offsets == <<-2, -1, 1, 2>>

\* generate_neighbors letting every frog within two positions of the empty
\* one move into it, in either direction
generate_neighbors_either_way(state, tl, tr) ==
    IF ~Contains(state, 0) THEN <<>>
    ELSE LET empty_index == IndexOf(state, 0)
             Legal(k) == LET i == empty_index + Offsets[k]
                         IN i \in 1..Len(state)
             kept == SelectSeq(<<1, 2, 3, 4>>, Legal)
         IN ListOf([k \in 1..Len(kept) |->
                SwapPositions(state, empty_index, empty_index + Offsets[kept[k]])])

\* the list of neighbour states; state.index(0) raising ValueError is caught
\* by generate_neighbors and gives the empty list
generate_neighbors(state, tl, tr) ==
    IF ~Contains(state, 0) THEN <<>>
    ELSE LET empty_index == IndexOf(state, 0)
             Legal(k) == LET i == empty_index + Offsets[k]
                         IN /\ i \in 1..Len(state)
                            /\ is_valid_move(state, i, empty_index, tl, tr)
             kept == SelectSeq(<<1, 2, 3, 4>>, Legal)
         IN ListOf([k \in 1..Len(kept) |->
                SwapPositions(state, empty_index, empty_index + Offsets[kept[k]])])

-----------------------------------------------------------------------------
(* The two breadth-first loops (shortest_path_length, build_graph) pop a   *)
(* FIFO queue one entry at a time.  The queue always holds the entries of  *)
(* one depth followed by those of the next depth, so the loops are         *)
(* evaluated here one depth at a time: `level' is the part of the queue at *)
(* the current depth, in queue order.                                      *)

\* The entries of `level' the loop expands, in order: an entry is skipped
\* when it is in visited, which by then holds the entries popped before it.
\* At most `limit' entries are expanded.
ExpandedOf(level, visited, limit) ==
    LET FirstNew(k) == /\ level[k] \notin visited
                       /\ \A j \in 1..(k - 1) : level[j] # level[k]
        idx == SelectSeq([k \in 1..Len(level) |-> k], FirstNew)
        n == IF Len(idx) < limit THEN Len(idx) ELSE limit
    IN ListOf([e \in 1..n |-> level[idx[e]]])

\* The entries appended to the queue while `expanded' is processed: the
\* neighbours of each expanded state, in order; with only_unvisited (the test
\* `tuple(neighbor) not in visited' of build_graph) a neighbour is appended
\* only if it is not in visited at that moment.
AppendedBy(expanded, visited, tl, tr, only_unvisited) ==
    LET nbrs == ListOf([e \in 1..Len(expanded) |->
                        generate_neighbors(expanded[e], tl, tr)])
        slots == [q \in 1..(4 * Len(expanded)) |->
                     <<((q - 1) \div 4) + 1, ((q - 1) % 4) + 1>>]
        Appended(s) ==
            /\ s[2] <= Len(nbrs[s[1]])
            /\ only_unvisited =>
                  /\ nbrs[s[1]][s[2]] \notin visited
                  /\ \A j \in 1..s[1] : expanded[j] # nbrs[s[1]][s[2]]
        sel == SelectSeq(slots, Appended)
    IN ListOf([q \in 1..Len(sel) |-> nbrs[sel[q][1]][sel[q][2]]])

SeqRange(s) == {s[k] : k \in 1..Len(s)}

-----------------------------------------------------------------------------
(* shortest_path_length: the start state is queued with depth 1; a popped  *)
(* entry equal to the goal returns its depth; an entry already visited or  *)
(* deeper than max_depth is skipped.                                       *)

RECURSIVE spl_search(_, _, _, _, _, _, _)
spl_search(tl, tr, goal, max_depth, level, depth, visited) ==
    IF level = <<>> THEN RetNone
    ELSE IF \E k \in 1..Len(level) : level[k] = goal THEN RetInt(depth)
    ELSE IF depth > max_depth THEN RetNone
    ELSE LET expanded == ExpandedOf(level, visited, Len(level))
         IN spl_search(tl, tr, goal, max_depth,
                       AppendedBy(expanded, visited, tl, tr, FALSE),
                       depth + 1,
                       visited \cup SeqRange(expanded))

\* every exception, GraphUtilsError included, is caught and None is returned
shortest_path_length(tl, tr, start, goal, max_depth) ==
    LET expected_length == tl + tr + 1
    IN IF validate_game_state(start, expected_length) = RetRaise THEN RetNone
       ELSE IF validate_game_state(goal, expected_length) = RetRaise THEN RetNone
       ELSE spl_search(tl, tr, goal, max_depth, <<start>>, 1, {})

possible_moves(tl, tr, initial) ==
    LET expected_length == tl + tr + 1
    IN IF validate_game_state(initial, expected_length) = RetRaise THEN RetList(<<>>)
       ELSE RetList(generate_neighbors(initial, tl, tr))

-----------------------------------------------------------------------------
(* best_next_move *)

\* build_graph: the dict from each expanded state to its list of neighbours;
\* the loop stops when the queue is empty or max_iterations states have been
\* expanded
RECURSIVE build_graph_loop(_, _, _, _, _, _)
build_graph_loop(tl, tr, level, visited, graph, iteration_count) ==
    IF level = <<>> \/ ~(iteration_count < MaxIterations) THEN graph
    ELSE LET expanded == ExpandedOf(level, visited, MaxIterations - iteration_count)
             found == SeqRange(expanded)
         IN build_graph_loop(tl, tr,
                             AppendedBy(expanded, visited, tl, tr, TRUE),
                             visited \cup found,
                             graph @@ [s \in found |-> generate_neighbors(s, tl, tr)],
                             iteration_count + Len(expanded))

build_graph(tl, tr, start) == build_graph_loop(tl, tr, <<start>>, {}, <<>>, 0)

\* the successors of node u in the DiGraph made from graph_dict
Successors(graph, u) ==
    IF u \in DOMAIN graph THEN {graph[u][k] : k \in 1..Len(graph[u])} ELSE {}

\* nx.shortest_path(G, source, target) returns one shortest path; which one,
\* among several of the same length, is left to the library.  FirstSteps is
\* the set of nodes that can follow the source on a shortest path: layer j of
\* the backward search holds the nodes at distance j from the target.
\* FirstSteps taking any edge out of the source, shortest or not
FirstSteps_any_edge(graph, source, layer, seen) == Successors(graph, source)

RECURSIVE FirstSteps(_, _, _, _)
FirstSteps(graph, source, layer, seen) ==
    LET before == {u \in (DOMAIN graph) \ seen : Successors(graph, u) \cap layer # {}}
    IN IF source \in before THEN Successors(graph, source) \cap layer
       ELSE IF before = {} THEN {}
       ELSE FirstSteps(graph, source, before, seen \cup before)

\* sum(1 for a, b in zip(s, goal_state) if a != b)
Hamming(s, goal) ==
    LET n == IF Len(s) < Len(goal) THEN Len(s) ELSE Len(goal)
    IN Cardinality({p \in 1..n : s[p] # goal[p]})

\* MinByHamming taking the last neighbour of least key
MinByHamming_last(neighbors, goal) ==
    LET k == CHOOSE k \in 1..Len(neighbors) :
                /\ \A j \in 1..Len(neighbors) :
                       Hamming(neighbors[k], goal) <= Hamming(neighbors[j], goal)
                /\ \A j \in (k + 1)..Len(neighbors) :
                       Hamming(neighbors[j], goal) > Hamming(neighbors[k], goal)
    IN neighbors[k]

\* min(neighbors, key=...): the first neighbour of least key
MinByHamming(neighbors, goal) ==
    LET k == CHOOSE k \in 1..Len(neighbors) :
                /\ \A j \in 1..Len(neighbors) :
                       Hamming(neighbors[k], goal) <= Hamming(neighbors[j], goal)
                /\ \A j \in 1..(k - 1) :
                       Hamming(neighbors[j], goal) > Hamming(neighbors[k], goal)
    IN neighbors[k]

\* the fallback of best_next_move: the best neighbour by the heuristic
heuristic_fallback(tl, tr, initial, goal) ==
    LET neighbors == generate_neighbors(initial, tl, tr)
    IN IF neighbors = <<>> THEN RetNone
       ELSE RetState(MinByHamming(neighbors, goal))

\* path_first_step without the test len(shortest_path) > 1
path_first_step_no_length_test(graph_dict, tl, tr, initial, goal) ==
    LET steps == FirstSteps(graph_dict, initial, {goal}, {goal})
    IN IF steps = {} THEN {heuristic_fallback(tl, tr, initial, goal)}
       ELSE {RetState(n) : n \in steps}

\* lines 301-326: the first step of the shortest path, None when the path is
\* the source alone, the heuristic fallback when nx.shortest_path raises
\* NetworkXNoPath
path_first_step(graph_dict, tl, tr, initial, goal) ==
    IF initial = goal THEN {RetNone}
    ELSE LET steps == FirstSteps(graph_dict, initial, {goal}, {goal})
         IN IF steps = {} THEN {heuristic_fallback(tl, tr, initial, goal)}
            ELSE {RetState(n) : n \in steps}

\* the set of values best_next_move can return; every exception is caught and
\* None is returned
best_next_move(initial, goal) ==
    IF Len(initial) # Len(goal) THEN {RetNone}
    ELSE IF validate_game_state(initial, Len(initial)) = RetRaise THEN {RetNone}
    ELSE IF validate_game_state(goal, Len(initial)) = RetRaise THEN {RetNone}
    ELSE LET total_frogs == Len(initial) - 1
             tl == total_frogs \div 2
             tr == total_frogs - tl
             graph_dict == build_graph(tl, tr, initial)
         IN IF DOMAIN graph_dict = {} THEN {heuristic_fallback(tl, tr, initial, goal)}
            ELSE path_first_step(graph_dict, tl, tr, initial, goal)

\* is_game_winnable answering from the start state's moves alone
is_game_winnable_one_move(initial, goal) ==
    IF Len(initial) # Len(goal) THEN RetBool(FALSE)
    ELSE LET total_frogs == Len(initial) - 1
             tl == total_frogs \div 2
             tr == total_frogs - tl
             path_length == shortest_path_length(tl, tr, initial, goal, 1)
         IN RetBool(path_length # RetNone)

is_game_winnable(initial, goal) ==
    IF Len(initial) # Len(goal) THEN RetBool(FALSE)
    ELSE LET total_frogs == Len(initial) - 1
             tl == total_frogs \div 2
             tr == total_frogs - tl
             path_length == shortest_path_length(tl, tr, initial, goal, DefaultMaxDepth)
         IN RetBool(path_length # RetNone)

-----------------------------------------------------------------------------
(* The inputs.  A session of team size n starts from the board             *)
(* 1..n, 0, n+1..2n (or with the right team in descending order, the       *)
(* arrangement the goals of difficulty 2 and 3 are reachable from); the    *)
(* player then moves.  The functions of graph_utils are also given lists   *)
(* that no legal play produces: the request model checks only the length   *)
(* and the number of 0 entries of a submitted movement, and other callers  *)
(* (the tests) pass their own lists.                                       *)

TeamSizes == 1..MaxTeam

RightOrders == {"asc", "desc"}

\* the right team's values in the given order, k = 1..n
RightPiece(n, order, k) == IF order = "asc" THEN n + k ELSE 2 * n + 1 - k

InitialState(n, order) ==
    ListOf([p \in 1..(2 * n + 1) |-> IF p <= n THEN p
                                     ELSE IF p = n + 1 THEN 0
                                     ELSE RightPiece(n, order, p - n - 1)])

\* final_state of the difficulty configurations, for any team size
FinalState(n, order) ==
    ListOf([p \in 1..(2 * n + 1) |-> IF p <= n THEN RightPiece(n, order, p)
                                     ELSE IF p = n + 1 THEN 0
                                     ELSE p - n - 1])

FinalStates(n) == {FinalState(n, order) : order \in RightOrders}

\* the lists passed instead of a board of legal play: two positions
\* exchanged, one position overwritten, the last entry dropped, an entry added
Exchanged(state) ==
    {SwapPositions(state, a, b) : a, b \in 1..Len(state)}

Overwritten(state, n) ==
    {[state EXCEPT ![p] = v] : p \in 1..Len(state), v \in {-1, 0, 1, 2 * n + 1}}

Resized(state, n) ==
    {SubSeq(state, 1, Len(state) - 1), Append(state, 2 * n + 1)}

Submitted(state, n) ==
    (Exchanged(state) \cup Overwritten(state, n) \cup Resized(state, n)) \ {state}

\* the goals a call is made with: a configured final state, or the board itself
GoalChoices(state, n) == FinalStates(n) \cup {state}

BoardOps == {"init", "move", "submit"}

-----------------------------------------------------------------------------
(* The state machine: the board changes by moves (or is replaced by an     *)
(* arbitrary list), and each function of graph_utils is called on it.      *)

SolverInit ==
    /\ total_left \in TeamSizes
    /\ start_state \in {InitialState(total_left, order) : order \in RightOrders}
    /\ goal_state = <<>>
    /\ op = "init"
    /\ result = RetNone
    /\ DecisionIdle
    /\ LegacyIdle
    /\ GameIdle

\* the player makes a legal move
PlayerMove ==
    /\ op \in {"init", "move"}
    /\ \E k \in 1..Len(generate_neighbors(start_state, total_left, total_left)) :
          start_state' = generate_neighbors(start_state, total_left, total_left)[k]
    /\ op' = "move"
    /\ goal_state' = <<>>
    /\ result' = RetNone
    /\ UNCHANGED <<total_left, notSolver>>

\* an arbitrary list is passed in place of the starting board
PlayerSubmit ==
    /\ op = "init"
    /\ start_state' \in Submitted(start_state, total_left)
    /\ op' = "submit"
    /\ goal_state' = <<>>
    /\ result' = RetNone
    /\ UNCHANGED <<total_left, notSolver>>

Call_validate_game_state ==
    /\ op \in BoardOps
    /\ op' = "validate_game_state"
    /\ result' = validate_game_state(start_state, 2 * total_left + 1)
    /\ UNCHANGED <<total_left, start_state, goal_state, notSolver>>

Call_generate_neighbors ==
    /\ op \in BoardOps
    /\ op' = "generate_neighbors"
    /\ result' = RetList(generate_neighbors(start_state, total_left, total_left))
    /\ UNCHANGED <<total_left, start_state, goal_state, notSolver>>

Call_possible_moves ==
    /\ op \in BoardOps
    /\ op' = "possible_moves"
    /\ result' = possible_moves(total_left, total_left, start_state)
    /\ UNCHANGED <<total_left, start_state, goal_state, notSolver>>

Call_shortest_path_length ==
    /\ op \in BoardOps
    /\ \E g \in GoalChoices(start_state, total_left) :
          /\ goal_state' = g
          /\ result' = shortest_path_length(total_left, total_left, start_state, g,
                                            DefaultMaxDepth)
    /\ op' = "shortest_path_length"
    /\ UNCHANGED <<total_left, start_state, notSolver>>

\* a first call, or the same call made again
Call_best_next_move ==
    /\ \E g \in GoalChoices(start_state, total_left) :
          /\ op \in BoardOps \/ (op = "best_next_move" /\ g = goal_state)
          /\ goal_state' = g
          /\ result' \in best_next_move(start_state, g)
    /\ op' = "best_next_move"
    /\ UNCHANGED <<total_left, start_state, notSolver>>

Call_is_game_winnable ==
    /\ op \in BoardOps
    /\ \E g \in GoalChoices(start_state, total_left) :
          /\ goal_state' = g
          /\ result' = is_game_winnable(start_state, g)
    /\ op' = "is_game_winnable"
    /\ UNCHANGED <<total_left, start_state, notSolver>>

SolverNext ==
    \/ PlayerMove
    \/ PlayerSubmit
    \/ Call_validate_game_state
    \/ Call_generate_neighbors
    \/ Call_possible_moves
    \/ Call_shortest_path_length
    \/ Call_best_next_move
    \/ Call_is_game_winnable

Init == SolverInit

Next == SolverNext

Spec == Init /\ [][Next]_vars

-----------------------------------------------------------------------------
(* The rules of the puzzle, stated from the game's description and not     *)
(* from the code: what the properties below compare the code with.         *)

\* the PuzzleState invariant: length 2n+1, exactly one 0, the other entries
\* the distinct values 1..2n
IsPuzzleState(state, n) ==
    /\ Len(state) = 2 * n + 1
    /\ Count(state, 0) = 1
    /\ \A v \in 1..(2 * n) : Count(state, v) = 1

\* the position of the empty slot of a puzzle state
EmptySlot(state) == CHOOSE p \in 1..Len(state) : state[p] = 0

InLeftTeam(v, n) == v \in 1..n

InRightTeam(v, n) == v \in (n + 1)..(2 * n)

\* the piece at position i may move to the empty slot
RuleLegal(state, i, n) ==
    LET e == EmptySlot(state)
    IN /\ i \in 1..Len(state)
       /\ (i - e) \in {-2, -1, 1, 2}
       /\ \/ InLeftTeam(state[i], n) /\ i < e
          \/ InRightTeam(state[i], n) /\ i > e
       /\ Abs(i - e) = 2 =>
             LET between == state[(i + e) \div 2]
             IN IF InLeftTeam(state[i], n) THEN InRightTeam(between, n)
                                            ELSE InLeftTeam(between, n)

\* the board after the piece at position i has moved to the empty slot
Moved(state, i) == [state EXCEPT ![EmptySlot(state)] = state[i], ![i] = 0]

RuleSuccessors(state, n) ==
    {Moved(state, i) : i \in {p \in 1..Len(state) : RuleLegal(state, p, n)}}

\* the number of moves of a shortest sequence of legal moves from a state of
\* frontier to state b, counted from d; -1 when there is none
RECURSIVE MovesFrom(_, _, _, _, _)
MovesFrom(frontier, seen, b, n, d) ==
    IF b \in frontier THEN d
    ELSE LET further == (UNION {RuleSuccessors(s, n) : s \in frontier}) \ seen
         IN IF further = {} THEN -1
            ELSE MovesFrom(further, seen \cup further, b, n, d + 1)

MinMoves(a, b, n) == MovesFrom({a}, {a}, b, n, 0)

-----------------------------------------------------------------------------
(* Properties *)

\* C1: for a valid PuzzleState s, every state returned by generate_neighbors or
\* possible_moves has exactly one 0, holds each value as often as s does, and
\* differs from s in exactly two positions, the old empty slot (which now holds
\* the moved piece) and the moved piece's slot (which is now empty); so no
\* value, and no team, is changed.
C1_MovesKeepThePieces ==
    (op \in {"generate_neighbors", "possible_moves"}
        /\ IsPuzzleState(start_state, total_left)) =>
    \A k \in 1..Len(result.list) :
        LET t == result.list[k]
            e == EmptySlot(start_state)
            changed == {p \in 1..Len(start_state) : t[p] # start_state[p]}
        IN /\ Len(t) = Len(start_state)
           /\ Count(t, 0) = 1
           /\ \A v \in 0..(2 * total_left) : Count(t, v) = Count(start_state, v)
           /\ Cardinality(changed) = 2
           /\ e \in changed
           /\ \E i \in changed : t[i] = 0 /\ t[e] = start_state[i]

C1_Witness ==
    /\ op = "possible_moves"
    /\ IsPuzzleState(start_state, total_left)
    /\ total_left = 3
    /\ Len(result.list) >= 2
    /\ \E k \in 1..Len(result.list) :
          Abs(EmptySlot(result.list[k]) - EmptySlot(start_state)) = 2

\* C2: for a valid state with empty slot e, generate_neighbors returns the swap
\* of positions i and e if and only if i = e + offset for an offset in
\* {-2,-1,+1,+2} is in bounds, the piece at i moves in its team's forward
\* direction, and for a jump the slot between holds a piece of the other team.
C2_NeighborsAreTheLegalMoves ==
    (op = "generate_neighbors" /\ IsPuzzleState(start_state, total_left)) =>
    \A i \in 1..Len(start_state) :
        (\E k \in 1..Len(result.list) : result.list[k] = Moved(start_state, i))
            <=> (i # EmptySlot(start_state) /\ RuleLegal(start_state, i, total_left))

C2_Witness ==
    /\ op = "generate_neighbors"
    /\ IsPuzzleState(start_state, total_left)
    /\ \E i, j \in 1..Len(start_state) :
          /\ Abs(i - EmptySlot(start_state)) = 2
          /\ Abs(j - EmptySlot(start_state)) = 2
          /\ RuleLegal(start_state, i, total_left)
          /\ ~RuleLegal(start_state, j, total_left)

\* the arguments of the last call are valid puzzle states of the team size
ValidArguments ==
    /\ IsPuzzleState(start_state, total_left)
    /\ IsPuzzleState(goal_state, total_left)

\* C3: shortest_path_length(N, N, s, s) returns 0 for every valid state s.
C3_DistanceToItselfIsZero ==
    (op = "shortest_path_length" /\ ValidArguments /\ goal_state = start_state) =>
    result = RetInt(0)

\* C4: BFS monotonicity: if shortest_path_length(N, N, a, b) returns k for valid
\* states a and b, then no sequence of fewer than k legal moves from a reaches b.
C4_NoShorterSequence ==
    (op = "shortest_path_length" /\ ValidArguments /\ result.kind = "int") =>
    ~(\E m \in 0..(result.int - 1) :
          MinMoves(start_state, goal_state, total_left) = m)

\* C5: for a valid state s different from the goal g, with g reachable from s by
\* legal moves, best_next_move(s, g) returns a legal successor of s from which
\* the least number of legal moves to g is exactly one less than from s.
C5_BestMoveIsOneCloser ==
    (op = "best_next_move" /\ ValidArguments /\ start_state # goal_state
        /\ MinMoves(start_state, goal_state, total_left) # -1) =>
    /\ result.kind = "state"
    /\ result.state \in RuleSuccessors(start_state, total_left)
    /\ MinMoves(result.state, goal_state, total_left)
          = MinMoves(start_state, goal_state, total_left) - 1

C5_Witness ==
    /\ op = "best_next_move"
    /\ ValidArguments
    /\ total_left = 3
    /\ result.kind = "state"
    /\ MinMoves(start_state, goal_state, total_left) > 1
    /\ \E t \in RuleSuccessors(start_state, total_left) :
          MinMoves(t, goal_state, total_left) = -1

\* C6: best_next_move(s, g) with s equal to g returns None for every valid s.
C6_NoMoveAtTheGoal ==
    (op = "best_next_move" /\ ValidArguments /\ start_state = goal_state) =>
    result = RetNone

C6_Witness ==
    /\ op = "best_next_move"
    /\ ValidArguments
    /\ start_state = goal_state
    /\ RuleSuccessors(start_state, total_left) # {}
    /\ result = RetNone

\* C7: is_game_winnable(start, goal) is true if and only if
\* shortest_path_length finds the goal, that is, for valid states, if and only
\* if some sequence of legal moves (at most DefaultMaxDepth of them) leads from
\* start to goal; it is true for start 1,2,3,0,4,5,6 and goal 4,5,6,0,1,2,3.
C7_WinnableIffReachable ==
    (op = "is_game_winnable") =>
    /\ (Len(start_state) = Len(goal_state)) =>
          LET n == (Len(start_state) - 1) \div 2
              found == shortest_path_length(n, Len(start_state) - 1 - n, start_state,
                                            goal_state, DefaultMaxDepth)
          IN result = RetBool(found.kind = "int")
    /\ ValidArguments =>
          LET moves == MinMoves(start_state, goal_state, total_left)
          IN result = RetBool(moves # -1 /\ moves <= DefaultMaxDepth)
    /\ (start_state = <<1, 2, 3, 0, 4, 5, 6>> /\ goal_state = <<4, 5, 6, 0, 1, 2, 3>>) =>
          result = RetBool(TRUE)

C7_Witness ==
    /\ op = "is_game_winnable"
    /\ start_state = <<1, 2, 3, 0, 4, 5, 6>>
    /\ goal_state = <<4, 5, 6, 0, 1, 2, 3>>
    /\ result = RetBool(TRUE)

\* the legal successors of a state in the order of the offsets -2, -1, +1, +2
RuleMoves(state, n) ==
    LET e == EmptySlot(state)
        Legal(offset) == RuleLegal(state, e + offset, n)
        offsets == SelectSeq(<<-2, -1, 1, 2>>, Legal)
    IN [k \in 1..Len(offsets) |-> Moved(state, e + offsets[k])]

\* the number of positions in which two states of the same length differ
Differing(s, g) == Cardinality({p \in 1..Len(s) : s[p] # g[p]})

\* best_next_move was called with a goal that no sequence of legal moves
\* reaches, from a state that has a legal move
FallbackCase ==
    /\ op = "best_next_move"
    /\ ValidArguments
    /\ MinMoves(start_state, goal_state, total_left) = -1
    /\ RuleSuccessors(start_state, total_left) # {}

\* C8: heuristic fallback: when the goal is not reachable from start and start
\* has a legal successor, best_next_move returns the legal successor with the
\* fewest positions differing from the goal, the earliest in the order of the
\* offsets -2, -1, +1, +2 among equals; the same call made again returns the
\* identical state.
C8_FallbackIsTheNearestSuccessor ==
    /\ [](FallbackCase =>
            LET c == RuleMoves(start_state, total_left)
            IN /\ result.kind = "state"
               /\ \E k \in 1..Len(c) :
                     /\ result.state = c[k]
                     /\ \A j \in 1..Len(c) :
                           Differing(c[k], goal_state) <= Differing(c[j], goal_state)
                     /\ \A j \in 1..(k - 1) :
                           Differing(c[j], goal_state) > Differing(c[k], goal_state))
    /\ [][(FallbackCase /\ op' = "best_next_move"
              /\ start_state' = start_state /\ goal_state' = goal_state)
            => result' = result]_vars

C8_Witness ==
    /\ FallbackCase
    /\ result.kind = "state"
    /\ LET c == RuleMoves(start_state, total_left)
       IN \E j, k \in 1..Len(c) :
             /\ j < k
             /\ result.state = c[j]
             /\ Differing(c[j], goal_state) = Differing(c[k], goal_state)

C10_MalformedStateIsReported ==
    (op \in {"shortest_path_length", "possible_moves", "best_next_move"}
        /\ validate_game_state(start_state, 2 * total_left + 1) = RetRaise) =>
    /\ result # RetNone
    /\ result # RetList(<<>>)

-----------------------------------------------------------------------------
(***************************************************************************)
(* Part 2: belief scoring and the decision controller                      *)
(* (app/utils/equation_utils.py, app/controllers/base.py,                  *)
(* app/controllers/decision.py).                                           *)
(*                                                                         *)
(* Python floats are modelled as exact fractions <<numerator,              *)
(* denominator>> in lowest terms with a positive denominator, so equal     *)
(* numbers are equal values.  An equation is a Python expression held in a *)
(* string; it is modelled by its syntax tree, and a text that Python       *)
(* cannot parse by a node that says so.                                    *)
(***************************************************************************)

RECURSIVE GCD(_, _)
GCD(a, b) == IF b = 0 THEN a ELSE GCD(b, a % b)

Rat(n, d) ==
    LET g == GCD(Abs(n), Abs(d))
        sign == IF d < 0 THEN -1 ELSE 1
    IN  <<(sign * n) \div g, (sign * d) \div g>>

RatAdd(a, b) == Rat(a[1] * b[2] + b[1] * a[2], a[2] * b[2])

RatSub(a, b) == Rat(a[1] * b[2] - b[1] * a[2], a[2] * b[2])

RatMul(a, b) == Rat(a[1] * b[1], a[2] * b[2])

\* only used with b # 0
RatDiv(a, b) == Rat(a[1] * b[2], a[2] * b[1])

RatLess(a, b) == a[1] * b[2] < b[1] * a[2]

RatNeg(a) == <<0 - a[1], a[2]>>

Zero == <<0, 1>>

One == <<1, 1>>

\* a Python dict with string keys, and the dict operations used
EmptyDict == [k \in {} |-> Zero]

\* {**b, **a}
Merged_first_wins(a, b) ==
    [k \in (DOMAIN a) \cup (DOMAIN b) |-> IF k \in DOMAIN a THEN a[k] ELSE b[k]]

\* {**a, **b}
Merged(a, b) ==
    [k \in (DOMAIN a) \cup (DOMAIN b) |-> IF k \in DOMAIN b THEN b[k] ELSE a[k]]

\* d.get(k, default)
Get(d, k, default) == IF k \in DOMAIN d THEN d[k] ELSE default

-----------------------------------------------------------------------------
(* Equations *)

NumE(q) == [node |-> "num", name |-> "", num |-> q, args |-> <<>>]

VarE(x) == [node |-> "var", name |-> x, num |-> Zero, args |-> <<>>]

\* the text ${x}
PlaceholderE(x) == [node |-> "placeholder", name |-> x, num |-> Zero, args |-> <<>>]

\* l + r, l - r, l * r, l / r
BinE(o, l, r) == [node |-> o, name |-> "", num |-> Zero, args |-> <<l, r>>]

\* min(l, r)
MinE(l, r) == [node |-> "min", name |-> "", num |-> Zero, args |-> <<l, r>>]

\* an expression followed by text that makes the whole string unparsable,
\* such as a missing closing parenthesis
UnparsableE(e) == [node |-> "unparsable", name |-> "", num |-> Zero, args |-> <<e>>]

\* the empty string
EmptyE == [node |-> "empty", name |-> "", num |-> Zero, args |-> <<>>]

IntE(k) == NumE(<<k, 1>>)

\* what evaluating an expression gives: a number, or the exception raised
Value(q) == [kind |-> "float", val |-> q]

Raised(exception) == [kind |-> exception, val |-> Zero]

\* replace_placeholders_in_equation: every ${x} whose x is a key of the
\* context becomes the text of its value, every other one stays as it is
RECURSIVE replace_placeholders_in_equation(_, _)
replace_placeholders_in_equation(equation, context) ==
    IF equation.node = "placeholder"
    THEN IF equation.name \in DOMAIN context
         THEN NumE(context[equation.name])
         ELSE equation
    ELSE [equation EXCEPT !.args =
              ListOf([k \in 1..Len(equation.args) |->
                        replace_placeholders_in_equation(equation.args[k], context)])]

\* Python compiles the whole string before it evaluates any of it
RECURSIVE Parses(_)
Parses(e) ==
    /\ e.node \notin {"placeholder", "unparsable", "empty"}
    /\ \A k \in 1..Len(e.args) : Parses(e.args[k])

\* operands are evaluated left to right, the first exception ends it
RECURSIVE Eval(_, _)
Eval(e, context) ==
    IF e.node = "num" THEN Value(e.num)
    ELSE IF e.node = "var"
    THEN IF e.name \in DOMAIN context THEN Value(context[e.name])
         ELSE Raised("NameError")
    ELSE LET l == Eval(e.args[1], context)
             r == Eval(e.args[2], context)
         IN  IF l.kind # "float" THEN l
             ELSE IF r.kind # "float" THEN r
             ELSE IF e.node = "+" THEN Value(RatAdd(l.val, r.val))
             ELSE IF e.node = "-" THEN Value(RatSub(l.val, r.val))
             ELSE IF e.node = "*" THEN Value(RatMul(l.val, r.val))
             ELSE IF e.node = "/"
             THEN IF r.val = Zero THEN Raised("ZeroDivisionError")
                  ELSE Value(RatDiv(l.val, r.val))
             ELSE \* min
                  IF RatLess(r.val, l.val) THEN r ELSE l

\* eval(equation, {}, context)
PythonEval(equation, context) ==
    IF Parses(equation) THEN Eval(equation, context) ELSE Raised("SyntaxError")

\* a returned Python value: a number, or a string
RetFloat(q) == [kind |-> "float", val |-> q, text |-> ""]

RetStr(t) == [kind |-> "str", val |-> Zero, text |-> t]

\* a call that ends by raising
RetRaised(exception) == [kind |-> "raise", val |-> Zero, text |-> exception]

\* evaluate_equation: the value, or on any exception the error text
evaluate_equation(equation, context) ==
    LET r == PythonEval(equation, context)
    IN  IF r.kind = "float" THEN RetFloat(r.val)
        ELSE RetStr("Error al evaluar la ecuacion: " \o r.kind)

-----------------------------------------------------------------------------
(* BeliefController.evaluate_belief.  A belief is described by what its    *)
(* update_values call does (updated: its return value, has_values and      *)
(* values: the self.values it leaves), the equation and the weights its    *)
(* equation system gives, and the Standardization entry of the config.     *)

\* the keys of a dict in a fixed order, for the loop over self.values.items()
RECURSIVE SumOver(_, _)
SumOver(d, keys) ==
    IF keys = {} THEN Zero
    ELSE LET k == CHOOSE x \in keys : TRUE
         IN  RatAdd(d[k], SumOver(d, keys \ {k}))

\* (value / max_value if max_value > 0 else 0) * weight
Normalized(value, max_value, weight) ==
    RatMul(IF RatLess(Zero, max_value) THEN RatDiv(value, max_value) ELSE Zero,
           weight)

normalized_values(belief) ==
    [var \in DOMAIN belief.values |->
        Normalized(belief.values[var],
                   Get(belief.standardization, var \o "_max", One),
                   Get(belief.weights, var, One))]

\* context = {**weights, **normalized_values}
evaluation_context(belief) == Merged(belief.weights, normalized_values(belief))

evaluate_belief(belief) ==
    IF ~belief.updated THEN RetRaised("ValueError")
    ELSE IF ~belief.has_values THEN RetRaised("AttributeError")
    ELSE IF belief.equation.node = "empty"
    THEN RetFloat(RatDiv(SumOver(normalized_values(belief), DOMAIN belief.values),
                         <<IF Cardinality(DOMAIN belief.values) > 1
                           THEN Cardinality(DOMAIN belief.values) ELSE 1, 1>>))
    ELSE evaluate_equation(
             replace_placeholders_in_equation(belief.equation,
                                              evaluation_context(belief)),
             evaluation_context(belief))

-----------------------------------------------------------------------------
(* DecisionController *)

\* the priority dict of make_decision, and the default of priority.get
PriorityOf(name) ==
    CASE name = "Demonstrate" -> 0
      [] name = "Ask" -> 1
      [] name = "Explain" -> 2
      [] name = "Advice" -> 3
      [] name = "Feedback" -> 4
      [] OTHER -> 99

\* the loop of evaluate_beliefs: the beliefs whose evaluate_belief returned,
\* in roster order, each with the value returned
EvaluatedOf(roster) ==
    LET outcome == ListOf([k \in 1..Len(roster) |-> evaluate_belief(roster[k])])
        kept == SelectSeq(ListOf([k \in 1..Len(roster) |-> k]),
                          LAMBDA k : outcome[k].kind # "raise")
    IN  ListOf([j \in 1..Len(kept) |->
                  [name |-> roster[kept[j]].name, value |-> outcome[kept[j]]]])

DecisionRaised(o) ==
    [op |-> o, kind |-> "BeliefEvaluationError", evaluated |-> <<>>, winner |-> ""]

evaluate_beliefs_no_empty_test(roster) ==
    [op |-> "evaluate_beliefs", kind |-> "list",
     evaluated |-> EvaluatedOf(roster), winner |-> ""]

evaluate_beliefs(roster) ==
    LET evaluated_beliefs == EvaluatedOf(roster)
    IN  IF evaluated_beliefs = <<>> THEN DecisionRaised("evaluate_beliefs")
        ELSE [op |-> "evaluate_beliefs", kind |-> "list",
              evaluated |-> evaluated_beliefs, winner |-> ""]

KeyLess_score_only(x, y) == RatLess(RatNeg(x.value.val), RatNeg(y.value.val))

\* the key of min: (-float(x['value']), priority.get(x['name'], 99))
KeyLess(x, y) ==
    \/ RatLess(RatNeg(x.value.val), RatNeg(y.value.val))
    \/ /\ x.value.val = y.value.val
       /\ PriorityOf(x.name) < PriorityOf(y.name)

\* min(list, key): the first element that no other element is smaller than
MinByKey_first_in_list(evaluated_beliefs) == evaluated_beliefs[1]

MinByKey(evaluated_beliefs) ==
    LET n == Len(evaluated_beliefs)
        k == CHOOSE i \in 1..n :
                /\ \A j \in 1..n : ~KeyLess(evaluated_beliefs[j], evaluated_beliefs[i])
                /\ \A j \in 1..(i - 1) : KeyLess(evaluated_beliefs[i], evaluated_beliefs[j])
    IN  evaluated_beliefs[k]

make_decision(roster) ==
    LET round == evaluate_beliefs(roster)
    IN  IF round.kind # "list" THEN DecisionRaised("make_decision")
        ELSE IF round.evaluated = <<>> THEN DecisionRaised("make_decision")
        ELSE IF \E k \in 1..Len(round.evaluated) :
                    round.evaluated[k].value.kind # "float"
        THEN \* float() of a string that is not a number: ValueError
             [DecisionRaised("make_decision") EXCEPT !.evaluated = round.evaluated]
        ELSE [op |-> "make_decision", kind |-> "belief",
              evaluated |-> round.evaluated,
              winner |-> MinByKey(round.evaluated).name]

-----------------------------------------------------------------------------
(* The rosters the decision controller is exercised with: the beliefs of   *)
(* the application, in the order of its list or with some of them left     *)
(* out, each with its equation and with values that give a chosen score,   *)
(* or with a fault: update_values fails, self.values is never set, or the  *)
(* equation cannot be evaluated.                                           *)

\* number of different scores the beliefs are given: level k scores 2k/5,
\* capped at 1 by the equation
MaxLevel == 2

\* largest number of beliefs in a roster (the application's list has five)
MaxRoster == 3

MainRoster == <<"Demonstrate", "Advice", "Feedback", "Explain", "Ask">>

\* base_equations
base_equations(name) ==
    CASE name = "Feedback" ->
            MinE(IntE(1), BinE("/", BinE("+", BinE("*", VarE("E"), IntE(2)),
                                              BinE("*", VarE("B"), IntE(3))),
                                    IntE(12)))
      [] name = "Advice" ->
            MinE(IntE(1), BinE("/", BinE("+", VarE("IP"),
                                              BinE("*", VarE("R"), IntE(2))),
                                    IntE(18)))
      [] name = "Explain" ->
            MinE(IntE(1), BinE("/", BinE("+", BinE("-", IntE(1), VarE("CE")),
                                              BinE("*", VarE("E"), IntE(2))),
                                    IntE(6)))
      [] name = "Demonstrate" ->
            MinE(IntE(1), BinE("/", BinE("+", BinE("/", VarE("TPM"), IntE(25)),
                                              BinE("/", BinE("-", IntE(10), VarE("A")),
                                                        IntE(12))),
                                    IntE(2)))
      [] name = "Ask" ->
            MinE(IntE(1), BinE("/", BinE("+", BinE("*", VarE("B"), IntE(3)),
                                              BinE("/", VarE("TP"), IntE(20))),
                                    IntE(4)))
      [] OTHER -> MinE(IntE(1), NumE(<<1, 2>>))

\* base_weights of get_metric_weights
base_weights == [v \in {"E", "B", "IP", "R", "CE", "TPM", "A", "TP"} |-> One]

\* values with which the base equation of the belief gives 2 * level / 5
ValuesFor(name, level) ==
    CASE name = "Feedback" -> [E |-> Zero, B |-> Rat(8 * level, 5)]
      [] name = "Advice" -> [IP |-> Rat(36 * level, 5), R |-> Zero]
      [] name = "Explain" -> [CE |-> One, E |-> Rat(6 * level, 5)]
      [] name = "Demonstrate" -> [A |-> <<10, 1>>, TPM |-> <<20 * level, 1>>]
      [] name = "Ask" -> [TP |-> Zero, B |-> Rat(8 * level, 15)]

\* equations that cannot be evaluated: a variable that nothing binds, a
\* division by zero, a placeholder that nothing replaces
UnboundEquation ==
    MinE(IntE(1), BinE("/", BinE("+", BinE("*", VarE("E"), IntE(2)), VarE("Q")),
                            IntE(12)))

ZeroDivisionEquation ==
    MinE(IntE(1), BinE("/", BinE("+", BinE("*", VarE("E"), IntE(2)),
                                      BinE("*", VarE("B"), IntE(3))),
                            IntE(0)))

PlaceholderEquation ==
    MinE(IntE(1), BinE("/", PlaceholderE("X"), IntE(12)))

Faults == {"update_values", "no_values", "unbound", "zero_division", "placeholder"}

\* a belief without fault scores at one of the levels
SetupKinds ==
    {[fault |-> "none", level |-> l] : l \in 1..MaxLevel}
        \cup {[fault |-> f, level |-> 1] : f \in Faults}

Absent == [fault |-> "absent", level |-> 1]

Setup(name, kind) ==
    [name |-> name,
     updated |-> kind.fault # "update_values",
     has_values |-> kind.fault # "no_values",
     values |-> IF kind.fault = "no_values" THEN EmptyDict
                ELSE ValuesFor(name, kind.level),
     equation |-> CASE kind.fault = "unbound" -> UnboundEquation
                    [] kind.fault = "zero_division" -> ZeroDivisionEquation
                    [] kind.fault = "placeholder" -> PlaceholderEquation
                    [] OTHER -> base_equations(name),
     weights |-> base_weights,
     standardization |-> EmptyDict]

\* the roster in which belief k of the application's list has setup
\* choice[k], or is left out
RosterOf(choice) ==
    LET kept == SelectSeq(ListOf([k \in 1..Len(MainRoster) |-> k]),
                          LAMBDA k : choice[k] # Absent)
    IN  ListOf([j \in 1..Len(kept) |-> Setup(MainRoster[kept[j]], choice[kept[j]])])

Rosters ==
    {RosterOf(choice) :
        choice \in {c \in [1..Len(MainRoster) -> SetupKinds \cup {Absent}] :
                       Cardinality({k \in 1..Len(MainRoster) : c[k] # Absent})
                           <= MaxRoster}}

-----------------------------------------------------------------------------
(* The state machine of the decision controller *)

DecisionInit ==
    /\ beliefs \in Rosters
    /\ decision = NoDecision
    /\ SolverIdle
    /\ LegacyIdle
    /\ GameIdle

Call_evaluate_beliefs ==
    /\ decision' = evaluate_beliefs(beliefs)
    /\ UNCHANGED <<beliefs, notDecision>>

Call_make_decision ==
    /\ decision' = make_decision(beliefs)
    /\ UNCHANGED <<beliefs, notDecision>>

DecisionNext ==
    \/ Call_evaluate_beliefs
    \/ Call_make_decision

DecisionSpec == DecisionInit /\ [][DecisionNext]_vars

-----------------------------------------------------------------------------
(* Properties of the decision controller *)

\* the belief of the roster with a name
BeliefNamed(name) ==
    beliefs[CHOOSE k \in 1..Len(beliefs) : beliefs[k].name = name]

\* evaluate_belief returned for this belief
Returned(belief) == evaluate_belief(belief).kind # "raise"

\* the equation of the belief is reached and Python cannot evaluate it
EquationFails(belief) ==
    /\ belief.updated
    /\ belief.has_values
    /\ belief.equation.node # "empty"
    /\ LET context == Merged(belief.weights, normalized_values(belief))
       IN  PythonEval(replace_placeholders_in_equation(belief.equation, context),
                      context).kind # "float"

\* the belief gets a number as its score
Scored(belief) == Returned(belief) /\ ~EquationFails(belief)

\* the orderings of a list
Orderings(list) ==
    LET n == Len(list)
    IN  {ListOf([k \in 1..n |-> list[f[k]]]) :
            f \in {g \in [1..n -> 1..n] : \A i, j \in 1..n : g[i] = g[j] => i = j}}

\* C11: make_decision returns a belief of the round, and no belief evaluated
\* in that round has a strictly greater score than the belief returned.
C11_WinnerHasTheHighestScore ==
    (decision.op = "make_decision" /\ decision.kind = "belief") =>
        /\ \E k \in 1..Len(beliefs) :
              beliefs[k].name = decision.winner /\ Returned(beliefs[k])
        /\ \A j \in 1..Len(beliefs) :
              Returned(beliefs[j]) =>
                  ~RatLess(evaluate_belief(BeliefNamed(decision.winner)).val,
                           evaluate_belief(beliefs[j]).val)

\* the round {Feedback 0.4, Advice 0.4, Demonstrate 0.8} selects Demonstrate
C11_Witness ==
    /\ decision.op = "make_decision"
    /\ decision.winner = "Demonstrate"
    /\ decision.evaluated =
          <<[name |-> "Demonstrate", value |-> RetFloat(<<4, 5>>)],
            [name |-> "Advice", value |-> RetFloat(<<2, 5>>)],
            [name |-> "Feedback", value |-> RetFloat(<<2, 5>>)]>>

\* the beliefs of the round that share the highest score
TopScorers ==
    {k \in 1..Len(beliefs) :
        /\ Scored(beliefs[k])
        /\ \A j \in 1..Len(beliefs) :
              Scored(beliefs[j]) =>
                  ~RatLess(evaluate_belief(beliefs[k]).val,
                           evaluate_belief(beliefs[j]).val)}

\* Demonstrate > Ask > Explain > Advice > Feedback
PriorityOrder == <<"Demonstrate", "Ask", "Explain", "Advice", "Feedback">>

Before(a, b) ==
    \E i, j \in 1..Len(PriorityOrder) :
        i < j /\ PriorityOrder[i] = a /\ PriorityOrder[j] = b

\* C12: among the beliefs that share the highest score make_decision returns
\* the one that comes first in Demonstrate > Ask > Explain > Advice >
\* Feedback; every ordering of the roster gives the same winner, and so does
\* calling make_decision again.
C12_TieBreakIsDeterministic ==
    /\ []((decision.op = "make_decision" /\ decision.kind = "belief") =>
            /\ \E k \in TopScorers :
                  /\ beliefs[k].name = decision.winner
                  /\ \A j \in TopScorers : ~Before(beliefs[j].name, decision.winner)
            /\ \A other \in Orderings(beliefs) :
                  make_decision(other).winner = decision.winner)
    /\ [][(decision.op = "make_decision" /\ decision'.op = "make_decision"
              /\ beliefs' = beliefs) => decision' = decision]_vars

\* Advice and Ask tie at the top: Ask is returned although Advice is earlier
\* in the list
C12_Witness ==
    /\ decision.op = "make_decision"
    /\ decision.kind = "belief"
    /\ decision.winner = "Ask"
    /\ \E i, j \in TopScorers :
          i < j /\ beliefs[i].name = "Advice" /\ beliefs[j].name = "Ask"

\* C13: when the equation of one belief cannot be evaluated and another
\* belief is scored, make_decision returns one of the scored beliefs.
C13_EquationFailureIsIsolated ==
    (/\ decision.op = "make_decision"
     /\ \E k \in 1..Len(beliefs) : EquationFails(beliefs[k])
     /\ \E j \in 1..Len(beliefs) : Scored(beliefs[j]))
        => /\ decision.kind = "belief"
           /\ \E j \in 1..Len(beliefs) :
                 Scored(beliefs[j]) /\ beliefs[j].name = decision.winner

\* C14: a belief whose equation cannot be evaluated never enters the round
\* with a value: every value in the list of evaluated beliefs is a number.
C14_EquationFailureIsSignalled ==
    decision.op \in {"evaluate_beliefs", "make_decision"} =>
        /\ \A k \in 1..Len(beliefs) :
              EquationFails(beliefs[k]) => evaluate_belief(beliefs[k]).kind = "raise"
        /\ \A k \in 1..Len(decision.evaluated) :
              decision.evaluated[k].value.kind = "float"

\* C15: when evaluate_belief raises for every belief of the roster, or the
\* roster is empty, evaluate_beliefs and make_decision end with a
\* BeliefEvaluationError and return no belief.
C15_NothingEvaluatedIsAnError ==
    (/\ decision.op \in {"evaluate_beliefs", "make_decision"}
     /\ \A k \in 1..Len(beliefs) : ~Returned(beliefs[k]))
        => /\ decision.kind = "BeliefEvaluationError"
           /\ decision.winner = ""
           /\ decision.evaluated = <<>>

\* two beliefs, both raising, and make_decision was called
C15_Witness ==
    /\ decision.op = "make_decision"
    /\ decision.kind = "BeliefEvaluationError"
    /\ Len(beliefs) = 2
    /\ \A k \in 1..Len(beliefs) : ~Returned(beliefs[k])

-----------------------------------------------------------------------------
(***************************************************************************)
(* Part 3: concurrent decision requests.                                   *)
(*                                                                         *)
(* Both services build one object per belief when the module is loaded     *)
(* and share it between all requests; update_values stores the metrics of  *)
(* the requested game in the object (self.values) and evaluate_belief      *)
(* reads them back afterwards.                                             *)
(*                                                                         *)
(* app/main.py declares its handlers "async def" and awaits nothing in     *)
(* them: a request runs to its end on the event loop before the next one   *)
(* starts, which is the call-at-a-time behaviour of Part 2.                *)
(* DecisionCenter/main.py declares them "def": FastAPI runs each request   *)
(* in a worker thread, and the threads of two requests interleave between  *)
(* the statements of evaluate_belief.  This part models those threads,     *)
(* one step for update_values and one for the rest of evaluate_belief      *)
(* (database reads and prints lie between the two, so a thread switch      *)
(* there is possible).                                                     *)
(***************************************************************************)

\* the two game sessions whose requests are in flight
Sessions == {1, 2}

LegacyRoster == <<"Demonstrate", "Advice", "Feedback", "Explain", "Ask">>

\* what the queries of incentive_scripts return for a game: tries (IP),
\* average time between moves (TPM), correct moves (A), misses (E),
\* buclicity (B)
LegacyMetrics ==
    [IP : {2, 3}, TPM : {Zero, <<25, 1>>}, A : {0, 4}, E : {0}, B : {Zero}]

\* config['beliefs'][name] of config.json: the equations are those the
\* application keeps in its own table, no weights, no standardization
LegacyConfig(name) ==
    [Equation |-> base_equations(name), Weights |-> EmptyDict,
     Standardization |-> EmptyDict]

\* new_values of update_values; Advice adds 0.09 to the dict, a TypeError
legacy_new_values(name, m) ==
    CASE name = "Demonstrate" ->
            ("IP" :> <<m.IP, 1>>) @@ ("TPM" :> m.TPM) @@ ("A" :> <<m.A, 1>>)
      [] name = "Feedback" -> ("E" :> <<m.E, 1>>) @@ ("B" :> m.B)
      [] name = "Explain" ->
            ("CE" :> Rat(m.IP + m.E, 10)) @@ ("E" :> <<m.E, 1>>)
      [] OTHER -> ("B" :> m.B) @@ ("TP" :> m.TPM)

\* BeliefController.evaluate_belief after update_values, reading self.values
\* value / max_value
legacy_normalized(value, max_value) ==
    IF max_value[1] = 0 THEN Raised("ZeroDivisionError")
    ELSE Value(RatDiv(value, max_value))

\* evaluate_belief from the lookup of the belief's configuration on
legacy_evaluate(belief, self_values) ==
    LET normalized ==
            [var \in DOMAIN self_values |->
                legacy_normalized(self_values[var],
                                  Get(belief.Standardization, var \o "_max", One))]
        context ==
            Merged(belief.Weights, [var \in DOMAIN normalized |-> normalized[var].val])
    IN  IF \E var \in DOMAIN normalized : normalized[var].kind # "float"
        THEN RetRaised("ZeroDivisionError")
        ELSE evaluate_equation(
                 replace_placeholders_in_equation(belief.Equation, context),
                 context)

legacy_evaluate_belief(name, self_values) ==
    legacy_evaluate(LegacyConfig(name), self_values)

\* the belief the session's thread is at
BeliefAt(s) == LegacyRoster[requests[s].index]

NewRequest(m) ==
    [pc |-> "idle", index |-> 1, metrics |-> m, evaluated |-> <<>>,
     response |-> "none"]

LegacyInit ==
    /\ values = [name \in SeqRange(LegacyRoster) |-> EmptyDict]
    /\ requests \in [Sessions -> {NewRequest(m) : m \in LegacyMetrics}]
    /\ SolverIdle
    /\ DecisionIdle
    /\ GameIdle

\* move, up to the call of make_decision: the move is stored, and a
\* decision is taken when the number of tries is a multiple of three
Legacy_move(s) ==
    /\ requests[s].pc = "idle"
    /\ LET tries == requests[s].metrics.IP
       IN  requests' =
             IF tries % 3 = 0 /\ tries # 0
             THEN [requests EXCEPT ![s].pc = "update_values"]
             ELSE [requests EXCEPT ![s].pc = "done", ![s].response = "SPEECH"]
    /\ UNCHANGED <<values, notLegacy>>

\* update_values of the belief the loop of evaluate_beliefs is at
Legacy_update_values(s) ==
    /\ requests[s].pc = "update_values"
    /\ IF BeliefAt(s) = "Advice"
       THEN /\ requests' =
                [requests EXCEPT ![s].pc = "done", ![s].response = "error"]
            /\ UNCHANGED values
       ELSE /\ values' =
                [values EXCEPT ![BeliefAt(s)] =
                    legacy_new_values(BeliefAt(s), requests[s].metrics)]
            /\ requests' = [requests EXCEPT ![s].pc = "evaluate_belief"]
    /\ UNCHANGED notLegacy

\* the rest of evaluate_belief, and the end of the loop after the last belief
Legacy_evaluate_belief(s) ==
    /\ requests[s].pc = "evaluate_belief"
    /\ LET score == legacy_evaluate_belief(BeliefAt(s), values[BeliefAt(s)])
           evaluated ==
               Append(requests[s].evaluated,
                      [name |-> BeliefAt(s), value |-> score])
       IN  requests' =
             IF requests[s].index = Len(LegacyRoster)
             THEN [requests EXCEPT ![s].evaluated = evaluated,
                                   ![s].pc = "done",
                                   ![s].response = "action"]
             ELSE [requests EXCEPT ![s].evaluated = evaluated,
                                   ![s].index = @ + 1,
                                   ![s].pc = "update_values"]
    /\ UNCHANGED <<values, notLegacy>>

LegacyNext ==
    \E s \in Sessions :
        \/ Legacy_move(s)
        \/ Legacy_update_values(s)
        \/ Legacy_evaluate_belief(s)

LegacySpec == LegacyInit /\ [][LegacyNext]_vars

\* the score a session's request computes for a belief when it runs alone
ScoreAlone(s, name) ==
    legacy_evaluate_belief(name, legacy_new_values(name, requests[s].metrics))

\* C16: decision requests of two game sessions that interleave give each
\* session the belief scores it gets when its request runs alone; the
\* values a belief object keeps from one session's call are not seen by
\* the other session's call
C16_SessionsDoNotInterfere ==
    \A s \in Sessions :
        \A i \in DOMAIN requests[s].evaluated :
            requests[s].evaluated[i].value
                = ScoreAlone(s, requests[s].evaluated[i].name)


-----------------------------------------------------------------------------
(***************************************************************************)
(* Part 4: one game session of the application (app/main.py).              *)
(*                                                                         *)
(* The tables game_attempts (with the counter of movements_misses joined   *)
(* to its attempt) and movements, the metrics cache of incentive_scripts,  *)
(* the clock the cache reads, and the last request with its response.      *)
(* The handlers are "async def" without an await: each request is one      *)
(* step.  Rows are kept in insertion order and an attempt's id is its      *)
(* position in the table.                                                  *)
(*                                                                         *)
(* Left out: movement_time and the average_time metric computed from it,   *)
(* and the amount of belief_value that Demonstrate and Ask put in their    *)
(* values (no equation names either of them, so no score depends on        *)
(* them); feedback.py imports incentive_scripts under the name             *)
(* app.utils.incentive_scripts and so reads a second copy of the cache,    *)
(* which is filled and read in the same requests as the first - one cache  *)
(* is modelled.                                                            *)
(***************************************************************************)

\* number of requests that are processed (a bound of the model)
MaxRequests == 3

\* _METRICS_TTL_SECONDS
METRICS_TTL_SECONDS == 2

\* SQL NULL
NULL == <<>>

\* an attempt inserted one level above the one asked for
NewAttempt_one_above(difficulty_id) ==
    [difficulty_id |-> difficulty_id + 1, is_active |-> TRUE,
     last_buclicity |-> NULL, misses |-> 0]

\* INSERT INTO game_attempts (id, game_id, difficulty_id): is_active and
\* last_buclicity take their defaults, no movements_misses row exists
NewAttempt(difficulty_id) ==
    [difficulty_id |-> difficulty_id, is_active |-> TRUE,
     last_buclicity |-> NULL, misses |-> 0]

\* _format_movement_for_db: ','.join(str(item) ...), kept as its fields
format_movement_for_db(movement) ==
    ListOf([k \in 1..Len(movement) |-> ToString(movement[k])])

\* [int(x) for x in movement_str.split(",")]
parse_movement(movement_str) ==
    ListOf([k \in 1..Len(movement_str) |->
               CHOOSE v \in 0..(2 * 5) : ToString(v) = movement_str[k]])

\* a row of movements; interuption defaults to FALSE
NewMovement(attempt_id, movement, step, is_correct) ==
    [attempt_id |-> attempt_id, step |-> step,
     movement |-> format_movement_for_db(movement),
     is_correct |-> is_correct, interuption |-> FALSE]

\* _difficulty_configs of GameController: the goal of difficulty 1 is
\* 4,5,6,0,1,2,3
game_final_state(difficulty_id) ==
    FinalState(difficulty_id + 2, IF difficulty_id = 1 THEN "asc" ELSE "desc")

\* difficulty_configs of get_branch_factor and of Demonstrate: the goal of
\* difficulty 1 is 6,5,4,0,1,2,3
metrics_final_state(difficulty_id) == FinalState(difficulty_id + 2, "desc")

\* SELECT ... FROM game_attempts WHERE is_active IS TRUE, result[0]; 0 when
\* there is no such row
active_attempt(atts) ==
    IF \E a \in DOMAIN atts : atts[a].is_active
    THEN CHOOSE a \in DOMAIN atts :
            /\ atts[a].is_active
            /\ \A b \in DOMAIN atts : atts[b].is_active => a <= b
    ELSE 0

\* the movements of an attempt, ORDER BY step ASC (steps never decrease in
\* insertion order)
movements_of(movs, attempt_id) ==
    SelectSeq(movs, LAMBDA m : m.attempt_id = attempt_id)

\* SELECT MAX(step) ..., 0 when there is none: _get_current_step and
\* get_tries_count
get_current_step(movs, attempt_id) ==
    LET rows == movements_of(movs, attempt_id)
    IN  IF rows = <<>> THEN 0
        ELSE CHOOSE s \in {rows[k].step : k \in 1..Len(rows)} :
                \A k \in 1..Len(rows) : rows[k].step <= s

\* ORDER BY step DESC LIMIT 1: any of the rows of the highest step
get_last_movement(movs, attempt_id) ==
    LET rows == movements_of(movs, attempt_id)
    IN  {parse_movement(rows[k].movement) :
            k \in {j \in 1..Len(rows) :
                      rows[j].step = get_current_step(movs, attempt_id)}}

\* get_enhanced_buclicity on the movement texts of the attempt (three or
\* more of them)
enhanced_buclicity(texts) ==
    LET n == Len(texts)
        occurrences(w, i) ==
            Cardinality({j \in 1..(n - w + 1) :
                SubSeq(texts, j, j + w - 1) = SubSeq(texts, i - w + 1, i)})
        pattern_count(w) ==
            LET term == [i \in w..(n - 1) |->
                            IF occurrences(w, i) > 1
                            THEN Rat((occurrences(w, i) - 1) * (i - w + 1), n)
                            ELSE Zero]
            IN  SumOver(term, DOMAIN term)
        pattern_scores ==
            [w \in {v \in {2, 3} : n > v} |-> RatDiv(pattern_count(w), <<n - w, 1>>)]
        immediate_repetition_score ==
            Rat(Cardinality({i \in 2..n : texts[i] = texts[i - 1]}), n - 1)
        enhanced ==
            IF DOMAIN pattern_scores # {}
            THEN RatAdd(RatMul(RatDiv(SumOver(pattern_scores, DOMAIN pattern_scores),
                                      <<Cardinality(DOMAIN pattern_scores), 1>>),
                               <<7, 10>>),
                        RatMul(immediate_repetition_score, <<3, 10>>))
            ELSE immediate_repetition_score
    IN  IF RatLess(One, enhanced) THEN One ELSE enhanced

\* get_branch_factor: the mean of shortest_path_length over the moves
\* possible from the first movement of the attempt, 1.0 when there is none
get_branch_factor(atts, movs) ==
    LET a == active_attempt(atts)
        rows == movements_of(movs, a)
        blocks_per_team == atts[a].difficulty_id + 2
        moves == possible_moves(blocks_per_team, blocks_per_team,
                                parse_movement(rows[1].movement)).list
        value == [k \in 1..Len(moves) |->
                     shortest_path_length(blocks_per_team, blocks_per_team, moves[k],
                                          metrics_final_state(atts[a].difficulty_id),
                                          DefaultMaxDepth)]
        valid == {k \in 1..Len(moves) : value[k] # RetNone}
        S == [k \in valid |-> <<value[k].int, 1>>]
    IN  IF a = 0 THEN One
        ELSE IF rows = <<>> THEN One
        ELSE IF valid = {} THEN One
        ELSE RatDiv(SumOver(S, valid), <<Cardinality(valid), 1>>)

\* the metrics get_game_progress computes from the tables
computed_metrics(atts, movs) ==
    LET a == active_attempt(atts)
        rows == movements_of(movs, a)
        texts == [k \in 1..Len(rows) |-> rows[k].movement]
    IN  [tries_count |-> IF a = 0 THEN 0 ELSE get_current_step(movs, a),
         misses_count |-> IF a = 0 THEN 0 ELSE atts[a].misses,
         buclicity |-> IF a = 0 \/ Len(rows) < 3 THEN Zero
                       ELSE enhanced_buclicity(texts),
         branch_factor |-> get_branch_factor(atts, movs),
         repeated_states |->
             Cardinality({k \in 1..Len(rows) :
                             \E j \in 1..(k - 1) : texts[j] = texts[k]}),
         correct_moves |->
             Cardinality({k \in 1..Len(rows) : rows[k].is_correct})]

\* the UPDATE game_attempts SET last_buclicity that get_enhanced_buclicity
\* makes once the attempt has three movements
buclicity_stored(atts, movs) ==
    LET a == active_attempt(atts)
    IN  IF a = 0 \/ Len(movements_of(movs, a)) < 3 THEN atts
        ELSE [atts EXCEPT ![a].last_buclicity =
                              computed_metrics(atts, movs).buclicity]

\* _METRICS_CACHE without an entry for the game
NoEntry == [present |-> FALSE, ts |-> 0, data |-> computed_metrics(<<>>, <<>>)]

\* _cache_get: the stored metrics while they are at most the TTL old
cache_hit(entry, time) ==
    entry.present /\ ~(time - entry.ts > METRICS_TTL_SECONDS)

\* LearningProfile(game_id) after update_from_metrics: the fields the
\* equations and weights depend on
learning_profile(metrics) ==
    LET tries == IF metrics.tries_count > 1 THEN metrics.tries_count ELSE 1
        success_rate == Rat(metrics.correct_moves, tries)
        performance_score ==
            RatSub(success_rate, RatMul(Rat(metrics.misses_count, tries), <<3, 10>>))
        B == metrics.buclicity
        R == metrics.branch_factor
    IN  [success_rate |-> success_rate,
         learning_style |->
            IF RatLess(<<3, 1>>, B) /\ RatLess(R, <<2, 1>>) THEN "kinesthetic"
            ELSE IF RatLess(B, <<2, 1>>) /\ RatLess(<<3, 1>>, R) THEN "visual"
            ELSE IF /\ ~RatLess(B, One) /\ ~RatLess(<<3, 1>>, B)
                    /\ ~RatLess(R, <<2, 1>>) /\ ~RatLess(<<4, 1>>, R) THEN "verbal"
            ELSE "mixed",
         difficulty_level |->
            IF RatLess(<<4, 5>>, performance_score) THEN 3
            ELSE IF RatLess(performance_score, <<2, 5>>) THEN 1
            ELSE 2]

\* get_equation_override: the base equation after the text replacements
\* ("/2" -> "/1.5" also turns "/25" into "/1.55")
get_equation_override(name, profile) ==
    LET style == profile.learning_style
        level == profile.difficulty_level
        cap == IF RatLess(profile.success_rate, <<3, 10>>) THEN <<6, 5>>
               ELSE IF RatLess(<<4, 5>>, profile.success_rate) THEN <<4, 5>>
               ELSE One
        over(e, q) == MinE(NumE(cap), BinE("/", e, NumE(q)))
    IN  CASE name = "Feedback" ->
                over(BinE("+", BinE("*", VarE("E"), IntE(2)),
                               BinE("*", VarE("B"), IntE(3))),
                     IF level = 1 THEN <<8, 1>> ELSE <<12, 1>>)
          [] name = "Advice" ->
                over(BinE("+", VarE("IP"), BinE("*", VarE("R"), IntE(2))),
                     IF level = 4 THEN <<15, 1>> ELSE <<18, 1>>)
          [] name = "Explain" ->
                over(BinE("+", BinE("-", IntE(1), VarE("CE")),
                               BinE("*", VarE("E"), IntE(2))),
                     IF style = "verbal" \/ level = 1 THEN <<4, 1>> ELSE <<6, 1>>)
          [] name = "Demonstrate" ->
                over(BinE("+", BinE("/", VarE("TPM"),
                                    NumE(IF style = "visual" THEN <<31, 20>>
                                         ELSE IF level = 4 THEN <<51, 20>>
                                         ELSE <<25, 1>>)),
                               BinE("/", BinE("-", IntE(10), VarE("A")), IntE(12))),
                     IF style = "visual" THEN <<3, 2>>
                     ELSE IF level = 4 THEN <<5, 2>> ELSE <<2, 1>>)
          [] name = "Ask" ->
                over(BinE("+", BinE("*", VarE("B"), IntE(3)),
                               BinE("/", VarE("TP"), IntE(20))),
                     IF style = "kinesthetic" THEN <<3, 1>> ELSE <<4, 1>>)

\* get_metric_weights
get_metric_weights(profile) ==
    LET style == profile.learning_style
        level == profile.difficulty_level
        low == RatLess(profile.success_rate, <<3, 10>>)
        high == RatLess(<<4, 5>>, profile.success_rate)
        times(c, q) == IF c THEN q ELSE One
        weight(v) ==
            CASE v = "E" -> RatMul(times(style = "verbal", <<6, 5>>),
                              RatMul(times(level = 1, <<3, 2>>), times(low, <<13, 10>>)))
              [] v = "B" -> RatMul(RatMul(times(style = "visual", <<4, 5>>),
                                          times(style = "kinesthetic", <<13, 10>>)),
                              RatMul(times(level = 1, <<13, 10>>), times(low, <<6, 5>>)))
              [] v = "R" -> RatMul(times(style = "visual", <<6, 5>>),
                              RatMul(times(level = 4, <<6, 5>>), times(high, <<11, 10>>)))
              [] v = "CE" -> times(style = "verbal", <<13, 10>>)
              [] v = "TPM" -> times(style = "kinesthetic", <<4, 5>>)
              [] v = "A" -> RatMul(times(level = 4, <<11, 10>>), times(high, <<6, 5>>))
              [] OTHER -> One
    IN  [v \in DOMAIN base_weights |-> weight(v)]

\* the belief as evaluate_belief finds it after update_values: Advice and
\* Explain query the tables, Demonstrate and Ask store the snapshot of
\* get_game_progress, Feedback's update_values fails (KeyError 'game_id' in
\* _calculate_difficulty_score); equation and weights follow the profile
\* built from the snapshot
belief_at(name, atts, movs, snapshot) ==
    LET a == active_attempt(atts)
        tries == IF a = 0 THEN 0 ELSE get_current_step(movs, a)
        misses == IF a = 0 THEN 0 ELSE atts[a].misses
        profile == learning_profile(snapshot)
    IN  [name |-> name,
         updated |-> name # "Feedback",
         has_values |-> TRUE,
         values |->
            CASE name = "Advice" ->
                    [IP |-> <<tries, 1>>, R |-> get_branch_factor(atts, movs)]
              [] name = "Explain" ->
                    IF tries <= 2 THEN [CE |-> <<1, 10>>, E |-> Zero]
                    ELSE [CE |-> Rat(tries + misses, 10), E |-> <<misses, 1>>]
              [] name \in {"Demonstrate", "Ask"} ->
                    [belief_value |-> Zero,
                     tries_count |-> <<snapshot.tries_count, 1>>,
                     misses_count |-> <<snapshot.misses_count, 1>>,
                     buclicity |-> snapshot.buclicity,
                     branch_factor |-> snapshot.branch_factor,
                     repeated_states |-> <<snapshot.repeated_states, 1>>,
                     correct_moves |-> <<snapshot.correct_moves, 1>>]
              [] OTHER -> EmptyDict,
         equation |-> get_equation_override(name, profile),
         weights |-> get_metric_weights(profile),
         standardization |-> EmptyDict]

\* a response: status code, type, what it says, and its data (the move of
\* BEST_NEXT, the level change of CHANGE_DIFF)
Response(status, type, text, data) ==
    [status |-> status, type |-> type, text |-> text, data |-> data]

\* _mark_last_movement_interrupted flagging no row
mark_last_movement_interrupted_no_row(movs, attempt_id) == movs

\* _mark_last_movement_interrupted: the rows of the attempt at its highest
\* step are flagged
mark_last_movement_interrupted(movs, attempt_id) ==
    ListOf([k \in 1..Len(movs) |->
              IF /\ movs[k].attempt_id = attempt_id
                 /\ movs[k].step = get_current_step(movs, attempt_id)
              THEN [movs[k] EXCEPT !.interuption = TRUE] ELSE movs[k]])

\* _reduce_difficulty_and_restart leaving the attempt active
reduce_difficulty_and_restart_still_active(atts, attempt_id) ==
    Append(atts, NewAttempt(IF atts[attempt_id].difficulty_id - 1 > 1
                            THEN atts[attempt_id].difficulty_id - 1 ELSE 1))

\* _reduce_difficulty_and_restart: the attempt is deactivated and one of
\* max(1, current_difficulty - 1) is inserted
reduce_difficulty_and_restart(atts, attempt_id) ==
    Append([atts EXCEPT ![attempt_id].is_active = FALSE],
           NewAttempt(IF atts[attempt_id].difficulty_id - 1 > 1
                      THEN atts[attempt_id].difficulty_id - 1 ELSE 1))

\* action of the winning belief: the tables after it and the response, or
\* the exception it raises
belief_action(name, atts, movs) ==
    LET a == active_attempt(atts)
        outcome(t1, t2, r) == [attempts |-> t1, movements |-> t2, response |-> r]
    IN  CASE name = "Advice" ->
                IF a = 0
                THEN {outcome(atts, movs, Response(0, "raised", "GameNotFoundError", <<>>))}
                ELSE IF atts[a].difficulty_id = 1
                THEN {outcome(atts, mark_last_movement_interrupted(movs, a),
                             Response(200, "SPEECH", "Advice", <<>>))}
                ELSE {outcome(reduce_difficulty_and_restart(atts, a),
                             mark_last_movement_interrupted(movs, a),
                             Response(200, "CHANGE_DIFF", "Advice", <<-1>>))}
          [] name = "Explain" ->
                {outcome(atts, movs, Response(200, "SPEECH", "Explain", <<>>))}
          [] name = "Demonstrate" ->
                {outcome(atts, movs,
                        IF optimal_move.kind = "state"
                        THEN Response(200, "BEST_NEXT", "Demonstrate", optimal_move.state)
                        ELSE Response(200, "SPEECH", "Demonstrate", <<>>)) :
                   optimal_move \in
                     UNION {best_next_move(current_state,
                                           metrics_final_state(atts[a].difficulty_id)) :
                               current_state \in get_last_movement(movs, a)}}
          [] name = "Ask" ->
                \* ResponseType has no member ASK: AttributeError, raised again
                \* by the handler of the first
                {outcome(atts, movs, Response(0, "raised", "AttributeError", <<>>))}
          [] OTHER ->
                {outcome(atts, movs, Response(200, "SPEECH", "Feedback", <<>>))}

\* _calculate_difficulty without its table of lengths
calculate_difficulty_always_default(movement) == 1

\* _calculate_difficulty
calculate_difficulty(movement) ==
    CASE Len(movement) = 9 -> 2
      [] Len(movement) = 11 -> 3
      [] OTHER -> 1

\* GameController.move: what it returns or raises, and the tables after it.
\* The last movement and the best next move are each one of several where
\* the query or the solver leaves the choice open.
game_move(request, atts, movs) ==
    LET started ==
            IF active_attempt(atts) = 0
            THEN Append(atts, NewAttempt(calculate_difficulty(request.movement)))
            ELSE atts
        a == active_attempt(started)
        current_step == get_current_step(movs, a)
        final_state == game_final_state(started[a].difficulty_id)
        saved(step, is_correct) ==
            Append(movs, NewMovement(a, request.movement, step, is_correct))
        completed == [started EXCEPT ![a].is_active = FALSE]
        outcome(r, t1, t2) == [result |-> r, attempts |-> t1, movements |-> t2]
        is_best_move ==
            IF current_step < 1 THEN {FALSE}
            ELSE {best_movement = RetState(request.movement) :
                     best_movement \in
                        UNION {best_next_move(last_movement, final_state) :
                                  last_movement \in get_last_movement(movs, a)}}
        after_best_check ==
            IF request.movement = final_state /\ current_step > 1
            THEN IF started[a].difficulty_id < 3
                 THEN outcome("level_up",
                              Append(completed,
                                     NewAttempt(started[a].difficulty_id + 1)),
                              saved(current_step, TRUE))
                 ELSE outcome("Final movement", completed,
                              saved(current_step, TRUE))
            ELSE outcome(IF current_step = 0 THEN "First move" ELSE "True",
                         started, saved(current_step + 1, FALSE))
    IN  IF request.need_correct
        THEN {outcome("movement_saved", started, saved(current_step + 1, FALSE))}
        ELSE {IF best
              THEN outcome("Best movement", started, saved(current_step, TRUE))
              ELSE after_best_check : best \in is_best_move}

\* _get_random_motivational_message
Motivational == Response(200, "SPEECH", "motivational", <<>>)

\* no request yet
NoRequest ==
    [request |-> "none", movement |-> <<>>, need_correct |-> FALSE,
     result |-> "", response |-> Response(0, "", "", <<>>),
     recorded |-> <<>>, before |-> <<>>, after |-> <<>>,
     snapshot |-> NoEntry.data, round |-> NoDecision]

\* the requests made so far that wrote a movement or a miss
RequestsDone ==
    LET misses == [a \in DOMAIN attempts |-> <<attempts[a].misses, 1>>]
    IN  Len(movements) + SumOver(misses, DOMAIN misses)[1]

\* the boards the player sends: the start of difficulty 1, a move from it,
\* the board one move before its goal, its goal, and the start of difficulty 2
Boards ==
    {InitialState(3, "asc"), generate_neighbors(InitialState(3, "asc"), 3, 3)[1],
     SwapPositions(game_final_state(1), 4, 5), game_final_state(1),
     InitialState(4, "desc")}

MovementRequests ==
    {[movement |-> b, need_correct |-> c] : b \in Boards, c \in BOOLEAN}

GameInit ==
    /\ attempts = <<>>
    /\ movements = <<>>
    /\ cache = NoEntry
    /\ now = 0
    /\ last = NoRequest
    /\ SolverIdle
    /\ DecisionIdle
    /\ LegacyIdle

\* the request as `last` keeps it: what was asked, what game.move gave, the
\* tables before and after the beliefs were scored, and the response
MoveDone(request, m, after, snapshot, round, response) ==
    [request |-> "move", movement |-> request.movement,
     need_correct |-> request.need_correct, result |-> m.result,
     response |-> response, recorded |-> m.movements, before |-> m.attempts,
     after |-> after, snapshot |-> snapshot, round |-> round]

\* completion_response answering a stored movement like a completion
completion_response_always_speech(game_result) ==
    CASE game_result = "level_up" -> Response(200, "CHANGE_DIFF", "level_up", <<1>>)
      [] game_result = "Best movement" ->
            Response(500, "ERROR", "Internal server error", <<>>)
      [] OTHER -> Response(200, "SPEECH", game_result, <<>>)

\* _handle_game_completion and the need_correct branch of move
completion_response(game_result) ==
    CASE game_result = "movement_saved" -> Response(200, "STATUS", "saved", <<>>)
      [] game_result = "level_up" -> Response(200, "CHANGE_DIFF", "level_up", <<1>>)
      [] game_result = "Best movement" ->
            \* response_content is never assigned, UnboundLocalError
            Response(500, "ERROR", "Internal server error", <<>>)
      [] OTHER -> Response(200, "SPEECH", game_result, <<>>)

\* decide_and_act without the handler of the action's exception
decide_and_act_action_unhandled(request, m, after, snapshot, round, entry) ==
    IF round.kind = "belief"
    THEN {[attempts |-> act.attempts, movements |-> act.movements, cache |-> entry,
           last |-> MoveDone(request, m, after, snapshot, round,
                             IF act.response.type = "raised"
                             THEN Response(500, "ERROR", act.response.text, <<>>)
                             ELSE act.response)] :
             act \in belief_action(round.winner, after, m.movements)}
    ELSE {[attempts |-> after, movements |-> m.movements, cache |-> entry,
           last |-> MoveDone(request, m, after, snapshot, round, Motivational)]}

\* move of app/main.py from the decision on: the winner's action, or the
\* motivational message when the decision or the action raises
decide_and_act(request, m, after, snapshot, round, entry) ==
    IF round.kind = "belief"
    THEN {[attempts |-> act.attempts, movements |-> act.movements, cache |-> entry,
           last |-> MoveDone(request, m, after, snapshot, round,
                             IF act.response.type = "raised"
                             THEN Motivational ELSE act.response)] :
             act \in belief_action(round.winner, after, m.movements)}
    ELSE {[attempts |-> after, movements |-> m.movements, cache |-> entry,
           last |-> MoveDone(request, m, after, snapshot, round, Motivational)]}

\* move of app/main.py for a regular move: the beliefs are scored on the
\* snapshot of get_game_progress, which is the cache entry while it is fresh
regular_move(request, m, after, snapshot, entry) ==
    decide_and_act(request, m, after, snapshot,
                   make_decision(ListOf(
                       [k \in 1..Len(MainRoster) |->
                           belief_at(MainRoster[k], after, m.movements, snapshot)])),
                   entry)

\* move of app/main.py after game.move returned m
after_game_move(request, m, entry, time) ==
    IF m.result # "True"
    THEN {[attempts |-> m.attempts, movements |-> m.movements, cache |-> entry,
           last |-> MoveDone(request, m, m.attempts, NoEntry.data, NoDecision,
                             completion_response(m.result))]}
    ELSE IF cache_hit(entry, time)
         THEN regular_move(request, m, m.attempts, entry.data, entry)
         ELSE regular_move(request, m,
                           buclicity_stored(m.attempts, m.movements),
                           computed_metrics(m.attempts, m.movements),
                           [present |-> TRUE, ts |-> time,
                            data |-> computed_metrics(m.attempts, m.movements)])

\* POST /game/{game_id}: move of app/main.py
Move(request) ==
    /\ RequestsDone < MaxRequests
    /\ \E m \in game_move(request, attempts, movements) :
        \E o \in after_game_move(request, m, cache, now) :
            /\ attempts' = o.attempts
            /\ movements' = o.movements
            /\ cache' = o.cache
            /\ last' = o.last
    /\ UNCHANGED <<now, notGame>>

\* POST /game/{game_id}/miss
Miss ==
    /\ RequestsDone < MaxRequests
    /\ LET a == active_attempt(attempts)
           done(r) == [NoRequest EXCEPT !.request = "miss", !.response = r,
                                        !.recorded = movements,
                                        !.before = attempts, !.after = attempts']
       IN  IF a = 0
           THEN /\ attempts' = attempts
                /\ last' = done(Response(500, "ERROR", "GameNotFoundError", <<>>))
           ELSE /\ attempts' = [attempts EXCEPT ![a].misses = @ + 1]
                /\ last' = done(Response(200, "MISS", "miss", <<attempts[a].misses + 1>>))
    /\ UNCHANGED <<movements, cache, now, notGame>>

\* a second passes; the clock is read by the cache alone, so it is advanced
\* while there is an entry that has not yet expired
Tick ==
    /\ cache.present
    /\ now - cache.ts <= METRICS_TTL_SECONDS
    /\ now' = now + 1
    /\ UNCHANGED <<attempts, movements, cache, last, notGame>>

GameNext ==
    \/ \E request \in MovementRequests : Move(request)
    \/ Miss
    \/ Tick

GameSpec == GameInit /\ [][GameNext]_vars

(***************************************************************************)
(* The properties of a movement request.                                   *)
(***************************************************************************)

\* the last request was a regular move: game.move returned True and the
\* beliefs were scored
RegularMove == last.request = "move" /\ last.result = "True"

\* C17: the snapshot the beliefs of a regular move were scored on counts the
\* movement of that move: its tries, repeated states and correct moves are
\* those of the active attempt with the movement recorded
C17_SnapshotIncludesTheMove ==
    RegularMove =>
        LET fresh == computed_metrics(last.before, last.recorded)
        IN  /\ last.snapshot.tries_count = fresh.tries_count
            /\ last.snapshot.repeated_states = fresh.repeated_states
            /\ last.snapshot.correct_moves = fresh.correct_moves

\* C18: scoring the beliefs and choosing the winner of a move writes no row:
\* the attempts (with their misses) are after it what they were before it
C18_ScoringWritesNothing ==
    last.request = "move" => last.after = last.before

\* C19: a request with need_correct only appends the movement at the step
\* after the highest one of the active attempt, started if there was none,
\* marks nothing correct, completes nothing, scores no belief, leaves the
\* metrics cache alone and answers "saved"; no other request answers "saved"
C19_NeedCorrectIsOnlyStored ==
    [][last' # last /\ last'.request = "move" =>
          IF last'.need_correct
          THEN LET started ==
                       IF active_attempt(attempts) = 0
                       THEN Append(attempts,
                                   NewAttempt(calculate_difficulty(last'.movement)))
                       ELSE attempts
                   a == active_attempt(started)
               IN  /\ attempts' = started
                   /\ movements' =
                         Append(movements,
                                NewMovement(a, last'.movement,
                                            get_current_step(movements, a) + 1,
                                            FALSE))
                   /\ cache' = cache
                   /\ last'.round = NoDecision
                   /\ last'.after = last'.before
                   /\ last'.response = Response(200, "STATUS", "saved", <<>>)
          ELSE last'.response.text # "saved" /\ last'.response.type # "STATUS"]_vars

\* a need_correct request was stored although its board is the goal of the
\* attempt, which as a regular move would have completed it
C19_Witness ==
    /\ last.request = "move"
    /\ last.need_correct
    /\ last.response.text = "saved"
    /\ Len(last.recorded) > 1
    /\ LET a == active_attempt(attempts)
       IN  /\ a # 0
           /\ last.movement = game_final_state(attempts[a].difficulty_id)
           /\ get_current_step(movements, a) > 2

\* C20: the response of a regular move whose decision chose a belief is a
\* result of that belief's action
C20_ResponseIsTheWinnersAction ==
    RegularMove /\ last.round.kind = "belief" =>
        last.response \in
            {act.response :
                act \in belief_action(last.round.winner, last.after, last.recorded)}

-----------------------------------------------------------------------------
(***************************************************************************)
(* Part 5: evaluate_belief on its own.  One belief with values, weights    *)
(* and a Standardization table drawn from small sets is evaluated by the   *)
(* application's controller and by the DecisionCenter's.                   *)
(***************************************************************************)

\* the beliefs evaluated.  self.values: metrics named by the equation, and
\* one that no weight names.  Weights: the base table, the table of a
\* struggling player (E * 1.3, B * 1.2), and a configured table that names B
\* only.  Standardization: none, a maximum for E that is positive, zero or
\* negative, and a table whose key lacks the _max suffix.
ContextBeliefs ==
    LET ContextValues ==
            {("E" :> e) @@ ("B" :> b) :
                e \in {Zero, <<3, 1>>}, b \in {Zero, <<1, 2>>}}
                \cup {("E" :> e) @@ ("tries_count" :> <<2, 1>>) :
                         e \in {Zero, <<3, 1>>}}
        ContextWeights ==
            {base_weights,
             [base_weights EXCEPT !["E"] = <<13, 10>>, !["B"] = <<6, 5>>],
             ("B" :> <<3, 2>>)}
        ContextStandardizations ==
            {EmptyDict, ("E" :> <<6, 1>>)}
                \cup {("E_max" :> m) : m \in {<<6, 1>>, Zero, <<0 - 2, 1>>}}
    IN  {[name |-> "Feedback", updated |-> TRUE, has_values |-> TRUE,
          values |-> v, equation |-> base_equations("Feedback"), weights |-> w,
          standardization |-> s] :
            v \in ContextValues, w \in ContextWeights,
            s \in ContextStandardizations}

ContextInit ==
    /\ beliefs \in {<<b>> : b \in ContextBeliefs}
    /\ decision = NoDecision
    /\ SolverIdle
    /\ LegacyIdle
    /\ GameIdle

\* BeliefController.evaluate_belief of the DecisionCenter on the same belief
Call_legacy_evaluate_belief ==
    /\ decision' =
          [op |-> "legacy_evaluate_belief", kind |-> "belief",
           evaluated |->
              <<[name |-> beliefs[1].name,
                 value |-> legacy_evaluate(
                              [Equation |-> beliefs[1].equation,
                               Weights |-> beliefs[1].weights,
                               Standardization |-> beliefs[1].standardization],
                              beliefs[1].values)]>>,
           winner |-> ""]
    /\ UNCHANGED <<beliefs, notDecision>>

ContextNext ==
    \/ Call_evaluate_beliefs
    \/ Call_make_decision
    \/ Call_legacy_evaluate_belief

ContextSpec == ContextInit /\ [][ContextNext]_vars

\* normalize(value, max) as the contract has it
NormalizeContract(value, max_value) ==
    IF RatLess(Zero, max_value) THEN RatDiv(value, max_value) ELSE Zero

\* the context as the contract has it: every value normalized by its _max
\* entry and multiplied by its weight, every other weight as it is
ContextContract(belief) ==
    [v \in DOMAIN belief.values \cup DOMAIN belief.weights |->
        IF v \in DOMAIN belief.values
        THEN RatMul(NormalizeContract(belief.values[v],
                                      Get(belief.standardization, v \o "_max", One)),
                    Get(belief.weights, v, One))
        ELSE belief.weights[v]]

\* C21: the context of evaluate_belief is the contract's context, and the
\* score evaluate_beliefs reports is the equation evaluated in it
C21_ContextIsWeightedNormalizedValues ==
    \A k \in 1..Len(beliefs) :
        /\ evaluation_context(beliefs[k]) = ContextContract(beliefs[k])
        /\ decision.op = "evaluate_beliefs" /\ decision.kind = "list" =>
              \E e \in SeqRange(decision.evaluated) :
                 /\ e.name = beliefs[k].name
                 /\ e.value =
                       evaluate_equation(
                           replace_placeholders_in_equation(
                               beliefs[k].equation, ContextContract(beliefs[k])),
                           ContextContract(beliefs[k]))

\* a belief was scored whose E is a value with a weight other than 1 and a
\* maximum other than 1, so that the raw weight, the raw value and the
\* normalized weighted value are three different numbers
C21_Witness ==
    /\ decision.op = "evaluate_beliefs"
    /\ Len(decision.evaluated) = 1
    /\ LET b == beliefs[1]
       IN  /\ "E" \in DOMAIN b.values \cap DOMAIN b.weights
           /\ b.weights["E"] = <<13, 10>>
           /\ "E_max" \in DOMAIN b.standardization
           /\ b.standardization["E_max"] = <<6, 1>>
           /\ b.values["E"] = <<3, 1>>
           /\ evaluation_context(b)["E"] = <<13, 20>>
           /\ "tries_count" \in DOMAIN b.values
           /\ evaluation_context(b)["tries_count"] = <<2, 1>>

\* C22: each value is normalized to value / max when max > 0 and to 0
\* otherwise, by the application's controller and by the DecisionCenter's,
\* and neither raises
C22_NormalizationNeverDividesByZero ==
    \A k \in 1..Len(beliefs) :
        \A var \in DOMAIN beliefs[k].values :
            LET max_value == Get(beliefs[k].standardization, var \o "_max", One)
                claimed == NormalizeContract(beliefs[k].values[var], max_value)
            IN  /\ Normalized(beliefs[k].values[var], max_value, One) = claimed
                /\ decision.op = "legacy_evaluate_belief" =>
                      /\ decision.evaluated[1].value.kind # "raise"
                      /\ legacy_normalized(beliefs[k].values[var], max_value)
                            = Value(claimed)

-----------------------------------------------------------------------------
(***************************************************************************)
(* Part 6: best_next_move on boards whose graph is larger than             *)
(* max_iterations.  best_next_move takes lists of any odd length; with     *)
(* six frogs a side 1089 boards can be reached from the start.             *)
(***************************************************************************)

\* frogs a side of the boards passed
CapTeam == 6

\* the boards at most k legal moves from the given ones
RECURSIVE WithinMoves(_, _, _)
WithinMoves(boards, n, k) ==
    IF k = 0 THEN boards
    ELSE WithinMoves(
             boards \cup UNION {SeqRange(generate_neighbors(b, n, n)) : b \in boards},
             n, k - 1)

CapInit ==
    /\ total_left = CapTeam
    /\ start_state \in
          WithinMoves({InitialState(CapTeam, order) : order \in RightOrders},
                      CapTeam, 1)
    /\ goal_state = <<>>
    /\ op = "init"
    /\ result = RetNone
    /\ DecisionIdle
    /\ LegacyIdle
    /\ GameIdle

\* best_next_move called with a goal a few moves ahead of the board
Call_best_next_move_ahead ==
    /\ op = "init"
    /\ \E g \in WithinMoves({start_state}, total_left, 3) \ {start_state} :
          /\ goal_state' = g
          /\ result' \in best_next_move(start_state, g)
    /\ op' = "best_next_move"
    /\ UNCHANGED <<total_left, start_state, notSolver>>

\* the boards build_graph had found and not expanded when it stopped
Unexpanded(tl, tr, start) ==
    LET graph == build_graph(tl, tr, start)
    IN  UNION {Successors(graph, s) : s \in DOMAIN graph} \ DOMAIN graph

\* a sample of them: one for each place the empty position has among them
EdgeGoals(tl, tr, start) ==
    {CHOOSE g \in Unexpanded(tl, tr, start) : IndexOf(g, 0) = p :
        p \in {IndexOf(g, 0) : g \in Unexpanded(tl, tr, start)}}

\* best_next_move called on the start of a game with a goal at the edge of
\* the partial graph
Call_best_next_move_edge ==
    /\ op = "init"
    /\ \E order \in RightOrders : start_state = InitialState(total_left, order)
    /\ \E g \in EdgeGoals(total_left, total_left, start_state) :
          /\ goal_state' = g
          /\ result' \in best_next_move(start_state, g)
    /\ op' = "best_next_move"
    /\ UNCHANGED <<total_left, start_state, notSolver>>

CapNext ==
    \/ Call_best_next_move
    \/ Call_best_next_move_ahead
    \/ Call_best_next_move_edge

CapSpec == CapInit /\ [][CapNext]_vars

\* build_graph left its loop with max_iterations boards expanded and a board
\* it had found still not expanded
CapReached(tl, tr, start) ==
    LET graph == build_graph(tl, tr, start)
    IN  /\ Cardinality(DOMAIN graph) >= MaxIterations
        /\ \E s \in DOMAIN graph : Successors(graph, s) \ DOMAIN graph # {}

\* C23: when build_graph stopped at max_iterations with boards left,
\* best_next_move returns the neighbour nearest to the goal by Hamming
\* distance
C23_CappedGraphGivesTheHeuristicMove ==
    op = "best_next_move" /\ CapReached(total_left, total_left, start_state) =>
        result = heuristic_fallback(total_left, total_left, start_state, goal_state)

-----------------------------------------------------------------------------
(* Properties of the completion of an attempt *)

\* the request just handled was a move
MoveHandled == last' # last /\ last'.request = "move"

\* C24: a move without need_correct that is the goal of the active attempt,
\* made at a step beyond 1, deactivates the attempt; below difficulty 3 one
\* active attempt of the next difficulty is added and the response is
\* CHANGE_DIFF with a level change of 1
C24_FinalMoveCompletesTheAttempt ==
    [][LET a == active_attempt(attempts)
       IN  (/\ MoveHandled
            /\ ~last'.need_correct
            /\ a # 0
            /\ last'.movement = game_final_state(attempts[a].difficulty_id)
            /\ get_current_step(movements, a) > 1)
           => /\ ~attempts'[a].is_active
              /\ attempts[a].difficulty_id < 3 =>
                    /\ attempts' =
                          Append([attempts EXCEPT ![a].is_active = FALSE],
                                 NewAttempt(attempts[a].difficulty_id + 1))
                    /\ last'.response =
                          Response(200, "CHANGE_DIFF", "level_up", <<1>>)]_vars

\* game.move took the movement for the best move: it equals
\* best_next_move(last recorded board, goal) at a step of 1 or more
BestMoveHandled ==
    MoveHandled /\ last'.result = "Best movement"

\* C25: a best move is stored as correct and answered 200 SPEECH
C25_BestMoveIsEncouraged ==
    [][BestMoveHandled =>
          /\ Len(movements') = Len(movements) + 1
          /\ movements'[Len(movements')].is_correct
          /\ movements'[Len(movements')].movement
                = format_movement_for_db(last'.movement)
          /\ last'.response.status = 200
          /\ last'.response.type = "SPEECH"]_vars

-----------------------------------------------------------------------------
(* The game played at each of its three levels: the player sends the goal   *)
(* board of a level, of length 7, 9 or 11, or a start board the metrics     *)
(* measure the first two levels from, with need_correct false, so that an   *)
(* attempt of each difficulty is started, completed, and restarted by       *)
(* Advice.                                                                  *)

LevelBoards ==
    {game_final_state(d) : d \in 1..3} \cup {InitialState(t, "desc") : t \in 3..4}

LevelRequests ==
    {[movement |-> b, need_correct |-> FALSE] : b \in LevelBoards}

LevelsNext ==
    \/ \E request \in LevelRequests : Move(request)
    \/ Miss
    \/ Tick

LevelsSpec == GameInit /\ [][LevelsNext]_vars

\* the attempts of a table that are active
ActiveAttempts(atts) == {a \in DOMAIN atts : atts[a].is_active}

\* a move with need_correct = false arrives at a game with no active attempt
FirstMoveHandled ==
    MoveHandled /\ ~last'.need_correct /\ active_attempt(attempts) = 0

\* C26: the first move of a game with no active attempt, need_correct being
\* false, creates exactly one active attempt, of difficulty 1, 2 or 3 for a
\* movement of length 7, 9 or 11, records the movement at step 1 of that
\* attempt, is answered 200 with the 'First move' encouragement, and no belief
\* is evaluated
C26_FirstMoveStartsTheAttempt ==
    [][FirstMoveHandled =>
          LET a == Len(attempts) + 1
              n == Len(last'.movement)
          IN  /\ Len(attempts') = a
              /\ SubSeq(attempts', 1, Len(attempts)) = attempts
              /\ ActiveAttempts(attempts') = {a}
              /\ n = 7 => attempts'[a].difficulty_id = 1
              /\ n = 9 => attempts'[a].difficulty_id = 2
              /\ n = 11 => attempts'[a].difficulty_id = 3
              /\ attempts'[a].misses = 0
              /\ Len(movements') = Len(movements) + 1
              /\ movements'[Len(movements')].attempt_id = a
              /\ movements'[Len(movements')].step = 1
              /\ movements'[Len(movements')].movement =
                    format_movement_for_db(last'.movement)
              /\ get_current_step(movements', a) = 1
              /\ last'.result = "First move"
              /\ last'.response = Response(200, "SPEECH", "First move", <<>>)
              /\ last'.round = NoDecision]_vars

\* a board of length 11 was the first move of a game: the attempt it started
\* has difficulty 3 and the board is its step 1
C26_Witness ==
    /\ last.request = "move"
    /\ last.result = "First move"
    /\ Len(last.movement) = 11
    /\ Len(attempts) = 1
    /\ attempts[1].difficulty_id = 3
    /\ ActiveAttempts(attempts) = {1}
    /\ Len(movements) = 1
    /\ movements[1].step = 1

\* the winner's action raised: every outcome of the action on the tables the
\* beliefs were scored on is an exception
ActionRaised(req) ==
    /\ req.round.kind = "belief"
    /\ \A act \in belief_action(req.round.winner, req.after, req.recorded) :
          act.response.type = "raised"

\* make_decision raised
DecisionFailed(req) == req.round.kind = DecisionRaised("make_decision").kind

\* C27: when make_decision or the action of the winning belief raises during
\* a regular move, the answer is the motivational message, 200 SPEECH, and
\* the movement of the request stays recorded: it is the last row of the
\* table, one step after the step the attempt was at
C27_RaisingDecisionStillAnswers ==
    [][(/\ MoveHandled
        /\ last'.result = "True"
        /\ DecisionFailed(last') \/ ActionRaised(last'))
       => LET a == active_attempt(attempts)
          IN  /\ last'.response = Motivational
              /\ last'.response.status = 200
              /\ last'.response.type = "SPEECH"
              /\ movements' =
                    Append(movements,
                           NewMovement(a, last'.movement,
                                       get_current_step(movements, a) + 1, FALSE))
              /\ get_current_step(movements', a) =
                    get_current_step(movements, a) + 1]_vars

\* a regular move whose winning belief was Ask, the action of which raises,
\* was answered
C27_Witness ==
    /\ RegularMove
    /\ ActionRaised(last)
    /\ last.response = Motivational
    /\ Len(movements) >= 2


ActiveDifficulty(atts) == atts[active_attempt(atts)].difficulty_id

\* C29: every attempt has a difficulty of 1, 2 or 3, and a request creates at
\* most one attempt: a level-up creates it one above the completed attempt,
\* which was below 3, a reduction of Advice one below the closed attempt,
\* which was above 1, and a first move gives it 1, 2 or 3 for a movement of
\* length 7, 9 or 11
C29_DifficultyStaysInRange ==
    [][/\ \A a \in DOMAIN attempts' : attempts'[a].difficulty_id \in 1..3
       /\ Len(attempts') # Len(attempts) =>
             LET created == attempts'[Len(attempts')].difficulty_id
             IN  /\ Len(attempts') = Len(attempts) + 1
                 /\ last'.request = "move"
                 /\ CASE last'.result = "level_up" ->
                            /\ ActiveDifficulty(attempts) < 3
                            /\ created = ActiveDifficulty(attempts) + 1
                      [] last'.response.type = "CHANGE_DIFF" ->
                            /\ last'.round.winner = "Advice"
                            /\ ActiveDifficulty(attempts) > 1
                            /\ created = ActiveDifficulty(attempts) - 1
                      [] OTHER ->
                            /\ active_attempt(attempts) = 0
                            /\ Len(last'.movement) = 7 => created = 1
                            /\ Len(last'.movement) = 9 => created = 2
                            /\ Len(last'.movement) = 11 => created = 3]_vars

\* an attempt of difficulty 3 was completed by its goal: no attempt follows it
C29_Witness ==
    /\ last.request = "move"
    /\ last.result = "Final movement"
    /\ attempts[Len(attempts)].difficulty_id = 3
    /\ ActiveAttempts(attempts) = {}

-----------------------------------------------------------------------------
(* AdviceController.action on its own: the tables are as some requests left *)
(* them, with at most one active attempt and with the movements of an       *)
(* attempt at steps 1, 2, ..., and the action is applied to them once.      *)

\* most attempts, and most movements, in the tables the action is applied to
MaxRows == 2

AdviceAttempts ==
    {atts \in UNION {[1..n -> {[NewAttempt(d) EXCEPT !.is_active = act] :
                                  d \in 1..3, act \in BOOLEAN}] : n \in 0..MaxRows} :
        Cardinality(ActiveAttempts(atts)) <= 1}

\* the movements of the attempts named by owners, in the order recorded
RECURSIVE RowsOf(_)
RowsOf(owners) ==
    IF owners = <<>> THEN <<>>
    ELSE LET before == RowsOf(SubSeq(owners, 1, Len(owners) - 1))
             a == owners[Len(owners)]
         IN  Append(before,
                    NewMovement(a, InitialState(3, "asc"),
                                get_current_step(before, a) + 1, FALSE))

AdviceMovements(atts) ==
    {RowsOf(owners) : owners \in UNION {[1..n -> DOMAIN atts] : n \in 0..MaxRows}}

AdviceInit ==
    /\ attempts \in AdviceAttempts
    /\ movements \in AdviceMovements(attempts)
    /\ cache = NoEntry
    /\ now = 0
    /\ last = NoRequest
    /\ SolverIdle
    /\ DecisionIdle
    /\ LegacyIdle

\* AdviceController.action(game_id)
Call_advice_action ==
    /\ last = NoRequest
    /\ \E act \in belief_action("Advice", attempts, movements) :
          /\ attempts' = act.attempts
          /\ movements' = act.movements
          /\ last' = [NoRequest EXCEPT !.request = "advice",
                                       !.response = act.response,
                                       !.before = attempts,
                                       !.recorded = movements,
                                       !.after = act.attempts]
    /\ UNCHANGED <<cache, now, notGame>>

AdviceNext == Call_advice_action

AdviceSpec == AdviceInit /\ [][AdviceNext]_vars

\* the last row of an attempt in the table of movements, 0 when it has none
LastRow(movs, attempt_id) ==
    IF \E k \in 1..Len(movs) : movs[k].attempt_id = attempt_id
    THEN CHOOSE k \in 1..Len(movs) :
            /\ movs[k].attempt_id = attempt_id
            /\ \A j \in (k + 1)..Len(movs) : movs[j].attempt_id # attempt_id
    ELSE 0

\* the table of movements with the last row of the attempt flagged
Flagged(movs, attempt_id) ==
    IF LastRow(movs, attempt_id) = 0 THEN movs
    ELSE [movs EXCEPT ![LastRow(movs, attempt_id)].interuption = TRUE]

AdviceHandled == last' # last /\ last'.request = "advice"

-----------------------------------------------------------------------------
(* The goal board of each difficulty, as the components use it: an active   *)
(* attempt of a difficulty has one recorded board, a few legal moves from   *)
(* its start, and get_best_next or the action of Demonstrate is applied     *)
(* once.                                                                    *)

\* most legal moves between the start of a level and the recorded board
GoalDepth == 3

\* the start board the goal of GameController is reached from
game_initial_state(difficulty_id) ==
    InitialState(difficulty_id + 2, IF difficulty_id = 1 THEN "asc" ELSE "desc")

\* GameController.get_best_next: the response, or the exception raised
get_best_next(atts, movs) ==
    LET a == active_attempt(atts)
    IN  IF a = 0 THEN {Response(0, "raised", "GameNotFoundError", <<>>)}
        ELSE IF get_last_movement(movs, a) = {}
        THEN {Response(0, "raised", "InvalidMovementError", <<>>)}
        ELSE {Response(200, "BEST_NEXT", "get_best_next", best_movement.state) :
                 best_movement \in
                    UNION {best_next_move(last_movement,
                                          game_final_state(atts[a].difficulty_id)) :
                              last_movement \in get_last_movement(movs, a)}}

GoalInit ==
    /\ \E d \in 1..3 :
          /\ attempts = <<NewAttempt(d)>>
          /\ \E b \in WithinMoves({game_initial_state(d)}, d + 2, GoalDepth) :
                movements = <<NewMovement(1, b, 1, FALSE)>>
    /\ cache = NoEntry
    /\ now = 0
    /\ last = NoRequest
    /\ SolverIdle
    /\ DecisionIdle
    /\ LegacyIdle

\* what `last` keeps of a call that only reads the tables
ReadDone(name, response) ==
    [NoRequest EXCEPT !.request = name, !.response = response,
                      !.before = attempts, !.recorded = movements,
                      !.after = attempts]

\* GET /game/{game_id}/best_next
Call_get_best_next ==
    /\ last = NoRequest
    /\ \E response \in get_best_next(attempts, movements) :
          last' = ReadDone("get_best_next", response)
    /\ UNCHANGED <<attempts, movements, cache, now, notGame>>

\* DemonstrateController.action(game_id)
Call_demonstrate_action ==
    /\ last = NoRequest
    /\ \E act \in belief_action("Demonstrate", attempts, movements) :
          last' = ReadDone("demonstrate", act.response)
    /\ UNCHANGED <<attempts, movements, cache, now, notGame>>

GoalNext ==
    \/ Call_get_best_next
    \/ Call_demonstrate_action

GoalSpec == GoalInit /\ [][GoalNext]_vars

\* the move a response shows, none when it is not a BEST_NEXT
MoveShown(response) ==
    IF response.type = "BEST_NEXT" THEN response.data ELSE <<>>

\* the moves get_best_next can return on the tables
BestNextMoves(atts, movs) ==
    {response.data : response \in get_best_next(atts, movs)}

\* the boards one legal move from a board
Neighbours(b) ==
    SeqRange(generate_neighbors(b, (Len(b) - 1) \div 2, (Len(b) - 1) \div 2))

\* the boards the best-move check of move can take as the best movement
BestMoveChecked(atts, movs) ==
    {n \in UNION {Neighbours(b) : b \in get_last_movement(movs, active_attempt(atts))} :
        \E m \in game_move([movement |-> n, need_correct |-> FALSE], atts, movs) :
           m.result = "Best movement"}

\* C31: for every difficulty the components use one goal. On the recorded
\* board of the active attempt, the move the action of Demonstrate shows is a
\* move get_best_next returns, the moves the best-move check of move accepts
\* are the moves get_best_next returns (none when it returns no move), and
\* the goal of the branch factor and of the winnability test is the goal of
\* GameController
C31_OneGoalForAllComponents ==
    [][LET d == ActiveDifficulty(attempts)
       IN  /\ last'.request = "demonstrate" =>
                 /\ MoveShown(last'.response) \in BestNextMoves(attempts, movements)
                 /\ metrics_final_state(d) = game_final_state(d)
           /\ last'.request = "get_best_next" =>
                 BestMoveChecked(attempts, movements) =
                    BestNextMoves(attempts, movements) \ {<<>>}]_vars

-----------------------------------------------------------------------------
(* Properties of the scoring of the beliefs during a regular move *)

\* the names of the beliefs a round has a score for
EvaluatedNames(round) ==
    {round.evaluated[k].name : k \in 1..Len(round.evaluated)}

\* C32: in a regular move, where the game has an active attempt and the
\* snapshot of its metrics is complete, update_values succeeds for each of
\* the five beliefs of the roster, and evaluate_beliefs has one entry for
\* each of Demonstrate, Advice, Feedback, Explain and Ask
C32_EveryBeliefIsEvaluated ==
    RegularMove =>
        /\ \A k \in 1..Len(MainRoster) :
              belief_at(MainRoster[k], last.after, last.recorded, last.snapshot).updated
        /\ Len(last.round.evaluated) = 5
        /\ EvaluatedNames(last.round) =
              {"Demonstrate", "Advice", "Feedback", "Explain", "Ask"}

\* the variables an equation names
RECURSIVE EquationVars(_)
EquationVars(e) ==
    IF e.node = "var" THEN {e.name}
    ELSE UNION {EquationVars(e.args[k]) : k \in 1..Len(e.args)}

\* C33: for each belief scored in a regular move, every variable its base
\* equation names is bound, when the equation is evaluated, to the value
\* computed from what update_values stored for it, the normalised metric
\* times its weight, and never to the entry of the table of weights that has
\* the same name
C33_EquationVariablesAreMetrics ==
    RegularMove =>
        \A name \in EvaluatedNames(last.round) :
            LET belief == belief_at(name, last.after, last.recorded, last.snapshot)
            IN  \A v \in EquationVars(base_equations(name)) :
                   /\ v \in DOMAIN belief.values
                   /\ evaluation_context(belief)[v] = normalized_values(belief)[v]

-----------------------------------------------------------------------------
(* Properties of the graph of legal moves *)

\* how far the frogs of a board are from the end of their own direction: the
\* positions to the right of each left frog and to the left of each right frog
Remaining(state, n) ==
    Cardinality({<<p, q>> \in (1..Len(state)) \X (1..Len(state)) :
                    \/ is_left_frog(state[p], n) /\ q > p
                    \/ is_right_frog(state[p], n, n) /\ q < p})

\* the number of moves of the longest sequence of legal moves from the boards,
\* counting from k, or limit + 1 when a sequence is longer than limit
RECURSIVE LongestPlay(_, _, _, _)
LongestPlay(boards, n, k, limit) ==
    LET after == UNION {SeqRange(generate_neighbors(b, n, n)) : b \in boards}
    IN  IF after = {} THEN k
        ELSE IF k = limit THEN limit + 1
        ELSE LongestPlay(after, n, k + 1, limit)

\* the validated board a function of graph_utils is about to be called on
ValidBoard ==
    /\ op \in BoardOps
    /\ validate_game_state(start_state, 2 * total_left + 1) = RetNone

\* C34: the graph of legal moves has no cycle. From a valid board every legal
\* move brings a frog nearer to the end of its direction, a sequence of legal
\* moves has at most N*N + 2N moves and never comes back to the board, and
\* so the searches end without their caps: shortest_path_length gives the
\* same with its depth cap as with a cap of N*N + 2N + 1, and build_graph
\* expands every board that can be reached
C34_MoveGraphIsAcyclic ==
    ValidBoard =>
        LET n == total_left
            most == n * n + 2 * n
            after == SeqRange(generate_neighbors(start_state, n, n))
        IN  /\ \A b \in after : Remaining(b, n) < Remaining(start_state, n)
            /\ LongestPlay({start_state}, n, 0, most) <= most
            /\ start_state \notin WithinMoves(after, n, most)
            /\ \A g \in GoalChoices(start_state, n) :
                  shortest_path_length(n, n, start_state, g, DefaultMaxDepth) =
                  shortest_path_length(n, n, start_state, g, most + 1)
            /\ DOMAIN build_graph(n, n, start_state) =
                  WithinMoves({start_state}, n, most)

\* the start of the largest game has been played to the end of a longest
\* sequence: N*N + 2N moves, after which no frog can move
C34_Witness ==
    /\ ValidBoard
    /\ total_left = MaxTeam
    /\ start_state \in FinalStates(total_left)
    /\ generate_neighbors(start_state, total_left, total_left) = <<>>
    /\ \E order \in RightOrders :
          LongestPlay({InitialState(total_left, order)}, total_left, 0,
                      total_left * total_left + 2 * total_left)
             = total_left * total_left + 2 * total_left

\* the number of legal moves of a shortest sequence from one of the boards
\* to the goal, counting from k, with no cap on the search; -1 when no
\* sequence leads to the goal
RECURSIVE MovesTo(_, _, _, _)
MovesTo(boards, goal, n, k) ==
    IF goal \in boards THEN k
    ELSE IF boards = {} THEN -1
    ELSE MovesTo(UNION {SeqRange(generate_neighbors(b, n, n)) : b \in boards},
                 goal, n, k + 1)

\* the boards that follow the start on a shortest sequence of legal moves to
\* the goal
ShortestFirstSteps(start, goal, n) ==
    {b \in SeqRange(generate_neighbors(start, n, n)) :
        LET moves == MovesTo({b}, goal, n, 1)
        IN  moves >= 1 /\ moves = MovesTo({start}, goal, n, 0)}

\* build_graph stopped at max_iterations with boards left, as in CapReached,
\* and the partial graph has a path from the start to another board, the goal
CutWithPath(tl, tr, start, goal) ==
    /\ start # goal
    /\ LET graph == build_graph(tl, tr, start)
       IN  /\ Cardinality(DOMAIN graph) >= MaxIterations
           /\ \E s \in DOMAIN graph : Successors(graph, s) \ DOMAIN graph # {}
           /\ FirstSteps(graph, start, {goal}, {goal}) # {}

\* C35: when build_graph stopped at max_iterations with boards left and the
\* partial graph has a path from the start to the goal, best_next_move
\* returns the first step of a shortest sequence of legal moves to the goal
\* in the whole graph of moves
C35_PartialGraphPathIsShortest ==
    op = "best_next_move"
    /\ CutWithPath(total_left, total_left, start_state, goal_state)
    => /\ result.kind = "state"
       /\ result.state \in ShortestFirstSteps(start_state, goal_state, total_left)

\* a capped graph, a goal that was found and not expanded, over thirty moves
\* from the start, and a first step returned
C35_Witness ==
    /\ op = "best_next_move"
    /\ CutWithPath(total_left, total_left, start_state, goal_state)
    /\ goal_state \in Unexpanded(total_left, total_left, start_state)
    /\ MovesTo({start_state}, goal_state, total_left, 0) > 30
    /\ result.kind = "state"

\* C36: in every attempt the recorded movements carry the steps 1, 2, 3, ...
\* in the order they were recorded, and the last movement read by the
\* best-move check and by get_best_next is the one recorded last
C36_StepsFollowRecordingOrder ==
    \A a \in 1..Len(attempts) :
        LET rows == movements_of(movements, a)
        IN  /\ \A k \in 1..Len(rows) : rows[k].step = k
            /\ rows # <<>> =>
                  get_last_movement(movements, a) =
                      {parse_movement(rows[Len(rows)].movement)}

-----------------------------------------------------------------------------
(***************************************************************************)
(* The metrics cache of incentive_scripts with two games.  _METRICS_CACHE   *)
(* is a dict from game id to {"ts", "data"}; here cache, attempts and       *)
(* movements are functions of the game id: the entry of the dict and the    *)
(* rows of the tables that belong to the game.  The cache is read and       *)
(* written by get_game_progress alone; the tables change when a movement    *)
(* is stored.                                                               *)
(***************************************************************************)

GameIds == {"g1", "g2"}

\* the clock stops here (a bound of the model)
MaxClock == 3

\* movements stored in the two games together (a bound of the model)
MaxStored == 2

\* _cache_get: the data of the game's entry, or None (found is FALSE) when
\* there is no entry or it is older than the TTL, in which case it is popped
cache_get(entries, game_id, time) ==
    IF cache_hit(entries[game_id], time)
    THEN [found |-> TRUE, data |-> entries[game_id].data, cache |-> entries]
    ELSE [found |-> FALSE, data |-> NoEntry.data,
          cache |-> [entries EXCEPT ![game_id] = NoEntry]]

\* _cache_set
cache_set(entries, game_id, data, time) ==
    [entries EXCEPT ![game_id] = [present |-> TRUE, ts |-> time, data |-> data]]

\* get_game_progress answering from the entry of the other game
get_game_progress_any_entry(game_id, atts, movs, entries, time) ==
    IF \E g \in GameIds \ {game_id} : cache_get(entries, g, time).found
    THEN [metrics |-> entries[CHOOSE g \in GameIds : g # game_id].data,
          found |-> TRUE, cache |-> entries, attempts |-> atts]
    ELSE [metrics |-> computed_metrics(atts, movs), found |-> FALSE,
          cache |-> cache_set(entries, game_id, computed_metrics(atts, movs), time),
          attempts |-> buclicity_stored(atts, movs)]

\* get_game_progress on the tables of the game: the cached metrics, or the
\* metrics computed from the tables and stored in the cache
get_game_progress(game_id, atts, movs, entries, time) ==
    IF cache_get(entries, game_id, time).found
    THEN [metrics |-> cache_get(entries, game_id, time).data, found |-> TRUE,
          cache |-> cache_get(entries, game_id, time).cache, attempts |-> atts]
    ELSE [metrics |-> computed_metrics(atts, movs), found |-> FALSE,
          cache |-> cache_set(cache_get(entries, game_id, time).cache, game_id,
                              computed_metrics(atts, movs), time),
          attempts |-> buclicity_stored(atts, movs)]

\* what `last` keeps of a call: the function, the game, and its answer
CacheCall(name, game_id, found, metrics) ==
    [request |-> name, game_id |-> game_id, found |-> found, metrics |-> metrics]

CacheInit ==
    /\ attempts = [g \in GameIds |-> <<>>]
    /\ movements = [g \in GameIds |-> <<>>]
    /\ cache = [g \in GameIds |-> NoEntry]
    /\ now = 0
    /\ last = CacheCall("none", "", FALSE, NoEntry.data)
    /\ SolverIdle
    /\ DecisionIdle
    /\ LegacyIdle

\* the board stored in the games
CacheBoards == {InitialState(3, "asc")}

Call_get_game_progress ==
    \E g \in GameIds :
        \E got \in {get_game_progress(g, attempts[g], movements[g], cache, now)} :
            /\ cache' = got.cache
            /\ attempts' = [attempts EXCEPT ![g] = got.attempts]
            /\ last' = CacheCall("get_game_progress", g, got.found, got.metrics)
            /\ UNCHANGED <<movements, now, notGame>>

\* GameController.move with need_correct: the movement is stored and the
\* cache is neither read nor written
Call_move_need_correct ==
    /\ Len(movements["g1"]) + Len(movements["g2"]) < MaxStored
    /\ \E g \in GameIds, b \in CacheBoards :
          \E m \in game_move([movement |-> b, need_correct |-> TRUE],
                             attempts[g], movements[g]) :
              /\ attempts' = [attempts EXCEPT ![g] = m.attempts]
              /\ movements' = [movements EXCEPT ![g] = m.movements]
              /\ last' = CacheCall("move", g, FALSE, NoEntry.data)
    /\ UNCHANGED <<cache, now, notGame>>

\* a second passes; the clock is read by the cache alone, so it is advanced
\* while there is an entry that has not yet expired
CacheTick ==
    /\ now < MaxClock
    /\ \E g \in GameIds : cache_hit(cache[g], now)
    /\ now' = now + 1
    /\ UNCHANGED <<attempts, movements, cache, last, notGame>>

CacheNext ==
    \/ Call_get_game_progress
    \/ Call_move_need_correct
    \/ CacheTick

CacheSpec == CacheInit /\ [][CacheNext]_vars

\* C37: a call of get_game_progress for a game answers from the cache only
\* with the game's own entry, stored at most the TTL of 2 seconds before,
\* and then gives the metrics stored last without computing them and
\* without a write; an entry older than the TTL is removed by _cache_get,
\* and the answer is then computed from the tables of the game and stored
\* at the time of the call. The entries of the other games are left alone
C37_CacheAnswersFreshOwnEntry ==
    [][Call_get_game_progress =>
        LET g == last'.game_id
            item == cache[g]
            cached == cache_get(cache, g, now)
        IN  /\ \A h \in GameIds \ {g} : cache'[h] = cache[h]
            /\ last'.found <=> item.present /\ now - item.ts <= METRICS_TTL_SECONDS
            /\ last'.found =>
                  /\ last'.metrics = item.data
                  /\ cache' = cache
                  /\ attempts' = attempts
            /\ ~last'.found =>
                  /\ cached.cache[g] = NoEntry
                  /\ last'.metrics = computed_metrics(attempts[g], movements[g])
                  /\ cache'[g] = [present |-> TRUE, ts |-> now,
                                  data |-> last'.metrics]]_vars

\* a call answered from an entry exactly as old as the TTL, which no longer
\* agrees with the tables of the game and differs from the fresh entry of
\* the other game
C37_Witness ==
    /\ last.request = "get_game_progress"
    /\ last.found
    /\ LET g == last.game_id
       IN  /\ now - cache[g].ts = METRICS_TTL_SECONDS
           /\ last.metrics = cache[g].data
           /\ last.metrics # computed_metrics(attempts[g], movements[g])
           /\ \E h \in GameIds \ {g} :
                 /\ cache_hit(cache[h], now)
                 /\ cache[h].data # cache[g].data
====
